---- MODULE Spec2Model ----
(***************************************************************************)
(* A model of the Figma-to-HTML exporter (src/unnamed/part_000, the most   *)
(* complete variant, lines 1-2156): the style registry of one conversion   *)
(* run (ExportContext and the helpers that mutate it), the serialisation   *)
(* of the stylesheet, name sanitisation, the constraint-to-position        *)
(* mapping, the mask-run scan of the tree walker, the branches of the      *)
(* walker that emit one element (classes and inline style, sizing, strokes *)
(* and effects), the export requests of the UI, each an asynchronous run   *)
(* of exportSelection, and the recursion of nodeToHtmlCss over a layer     *)
(* tree as a stack of calls in progress.                                   *)
(*                                                                         *)
(* Text is modelled as a sequence of one-character strings, so that        *)
(* concatenation, the suffix regular expressions and the comparison used   *)
(* by the sort are computed, not assumed.                                  *)
(***************************************************************************)
EXTENDS Integers, Sequences, FiniteSets, TLC

VARIABLES
    pc,         \* position of the run: "running" | "done"
    context,    \* the ExportContext of the run
    calls,      \* log of the registry calls made so far, with what each returned
    css,        \* the serialised stylesheet (exportSelection), <<>> before
    contextB,   \* SpecOrder: the ExportContext of the run that visits in another order
    cssB,       \* SpecOrder: its serialised stylesheet
    plan,       \* SpecOrder: the registry calls the nodes of the tree give rise to
    order,      \* SpecOrder: the other visit order, a permutation of 1..Len(plan)
    sanIn,      \* SpecSanitize: the layer name
    sanOut,     \* SpecSanitize: sanitizeName(sanIn)
    sanTwice,   \* SpecSanitize: sanitizeName(sanOut)
    geom,       \* SpecPos: the node and its container
    posFrame,   \* SpecPos: getAbsolutePositionStyles(node, parentFrame)
    posGroup,   \* SpecPos: getGroupChildPositionStyles(node, parentGroup)
    tree,       \* SpecMask: the container whose children are scanned
    idx,        \* SpecMask: the sibling index i / gi of the scan
    emitted,    \* SpecMask: what the scan has emitted so far
    el,         \* SpecElement, SpecSizing, SpecPaint: the node being emitted and its
                \* parent context; SpecNames: the two nodes emitted in one run
    elOut,      \* the classes and the style attribute the node got (SpecNames: each node)
    doc,        \* SpecRun: the page (selection and layer tree) and the export outcomes
    runs,       \* SpecRun: the export requests in flight, each with its own state
    posted,     \* SpecRun: the messages posted to the UI, in order
    scene,      \* SpecWalk: the layer tree under the exported root
    stack,      \* SpecWalk: the calls of nodeToHtmlCss in progress, the innermost last
    markup,     \* SpecWalk: what has been appended to the html so far, in order
    exported    \* SpecWalk: the exportAsync calls issued so far, in order

vars == <<pc, context, calls, css, contextB, cssB, plan, order,
          sanIn, sanOut, sanTwice, geom, posFrame, posGroup, tree, idx, emitted,
          el, elOut, doc, runs, posted, scene, stack, markup, exported>>

registryVars  == <<context, calls, css>>
orderVars     == <<contextB, cssB, plan, order>>
sanitizeVars  == <<sanIn, sanOut, sanTwice>>
posVars       == <<geom, posFrame, posGroup>>
elementVars   == <<el, elOut>>
runVars       == <<doc, runs, posted>>
walkVars      == <<scene, stack, markup, exported>>
pageVars      == <<elementVars, runVars, walkVars>>
maskVars      == <<tree, idx, emitted>>

\* An absent value (null, undefined, not computed yet) and a present one
Null == <<>>
Some(x) == <<x>>

----------------------------------------------------------------------------
(* Text helpers *)

Digits == <<"0", "1", "2", "3", "4", "5", "6", "7", "8", "9">>

IsDigit(c) == \E d \in 1..10 : Digits[d] = c

DigitValue(c) == (CHOOSE d \in 1..10 : Digits[d] = c) - 1

\* String(n) for a natural number
RECURSIVE NatToStr(_)
NatToStr(n) ==
    IF n < 10 THEN <<Digits[n + 1]>>
    ELSE NatToStr(n \div 10) \o <<Digits[(n % 10) + 1]>>

\* Number(text) for a text of decimal digits
RECURSIVE StrToNat(_)
StrToNat(s) ==
    IF Len(s) = 0 THEN 0
    ELSE 10 * StrToNat(SubSeq(s, 1, Len(s) - 1)) + DigitValue(s[Len(s)])

\* lines.join(sep)
RECURSIVE Join(_, _)
Join(lines, sep) ==
    IF Len(lines) = 0 THEN <<>>
    ELSE IF Len(lines) = 1 THEN lines[1]
    ELSE lines[1] \o sep \o Join(Tail(lines), sep)

\* Flatten a sequence of texts into one text
RECURSIVE Concat(_)
Concat(parts) ==
    IF Len(parts) = 0 THEN <<>> ELSE parts[1] \o Concat(Tail(parts))

NL == <<"\n">>

\* The order String.prototype.localeCompare gives the characters used in
\* class names: punctuation before digits before letters.
CollationOrder ==
    <<"_", "-", "0", "1", "2", "3", "4", "5", "6", "7", "8", "9",
      "a", "b", "c", "d", "e", "f", "g", "h", "i", "j", "k", "l", "m",
      "n", "o", "p", "q", "r", "s", "t", "u", "v", "w", "x", "y", "z">>

CharRank(c) == CHOOSE r \in 1..Len(CollationOrder) : CollationOrder[r] = c

UpperCaseLetters ==
    <<"A", "B", "C", "D", "E", "F", "G", "H", "I", "J", "K", "L", "M",
      "N", "O", "P", "Q", "R", "S", "T", "U", "V", "W", "X", "Y", "Z">>
LowerCaseLetters ==
    <<"a", "b", "c", "d", "e", "f", "g", "h", "i", "j", "k", "l", "m",
      "n", "o", "p", "q", "r", "s", "t", "u", "v", "w", "x", "y", "z">>

\* The letter without its case: what the first level of the collation compares
FoldCase(c) ==
    IF \E k \in 1..26 : UpperCaseLetters[k] = c
    THEN LowerCaseLetters[CHOOSE k \in 1..26 : UpperCaseLetters[k] = c]
    ELSE c

\* First level: the strings compared letter by letter, case set aside
RECURSIVE ComparePrimary(_, _)
ComparePrimary(a, b) ==
    IF Len(a) = 0 /\ Len(b) = 0 THEN 0
    ELSE IF Len(a) = 0 THEN -1
    ELSE IF Len(b) = 0 THEN 1
    ELSE IF CharRank(FoldCase(a[1])) < CharRank(FoldCase(b[1])) THEN -1
    ELSE IF CharRank(FoldCase(a[1])) > CharRank(FoldCase(b[1])) THEN 1
    ELSE ComparePrimary(Tail(a), Tail(b))

\* Last level, for strings equal but for case: at the first difference the
\* lower-case letter comes first
RECURSIVE CompareCase(_, _)
CompareCase(a, b) ==
    IF Len(a) = 0 \/ Len(b) = 0 THEN 0
    ELSE IF a[1] = b[1] THEN CompareCase(Tail(a), Tail(b))
    ELSE IF FoldCase(a[1]) = a[1] THEN -1 ELSE 1

\* a.localeCompare(b): negative, zero or positive
localeCompare(a, b) ==
    LET primary == ComparePrimary(a, b)
    IN  IF primary # 0 THEN primary ELSE CompareCase(a, b)

----------------------------------------------------------------------------
(* ExportContext and the style registry *)

EmptyMap == [k \in {} |-> 0]

MapSet(m, k, v) == [x \in (DOMAIN m) \cup {k} |-> IF x = k THEN v ELSE m[x]]

\* exportSelection's fresh context
NewContext ==
    [ nameCounts       |-> EmptyMap,
      styleMap         |-> EmptyMap,
      utilityClasses   |-> {},
      styleEntries     |-> <<>>,
      fontFamiliesUsed |-> {},
      usedBaseClasses  |-> {},
      svgIdCounter     |-> 0 ]

\* `.${className} {\n${lines.join('\n')}\n}\n\n`
CssText(className, lines) ==
    <<".">> \o className \o <<" ", "{">> \o NL \o Join(lines, NL) \o NL \o <<"}">> \o NL \o NL

\* Mutant of GetUniqueClassName: the counter is read after the increment is
\* forgotten for the name (base-<count> with the old count).
GetUniqueClassNameStale(base, ctx) ==
    LET old       == IF base \in DOMAIN ctx.nameCounts THEN ctx.nameCounts[base] ELSE 0
        nextCount == old + 1
    IN  [ ret     |-> IF nextCount = 1 THEN base ELSE base \o <<"-">> \o NatToStr(old),
          context |-> [ctx EXCEPT !.nameCounts = MapSet(@, base, nextCount)] ]

GetUniqueClassName(base, ctx) ==
    LET nextCount == (IF base \in DOMAIN ctx.nameCounts THEN ctx.nameCounts[base] ELSE 0) + 1
    IN  [ ret     |-> IF nextCount = 1 THEN base ELSE base \o <<"-">> \o NatToStr(nextCount),
          context |-> [ctx EXCEPT !.nameCounts = MapSet(@, base, nextCount)] ]

\* The places where /-(\d+)$/ can match in s: a hyphen followed by one or more
\* digits up to the end of the text.
SuffixMatches(s) ==
    { p \in 1..Len(s) : /\ s[p] = "-"
                        /\ p < Len(s)
                        /\ \A q \in (p + 1)..Len(s) : IsDigit(s[q]) }

FirstMatch(s) == CHOOSE p \in SuffixMatches(s) : \A q \in SuffixMatches(s) : p <= q

\* className.match(/^(.*?)-(\d+)$/)
GetBaseNameAndSuffix(className) ==
    IF SuffixMatches(className) # {}
    THEN [ baseName |-> SubSeq(className, 1, FirstMatch(className) - 1),
           suffix   |-> StrToNat(SubSeq(className, FirstMatch(className) + 1, Len(className))) ]
    ELSE [ baseName |-> className, suffix |-> 0 ]

\* Mutant of RegisterUtilityClass: the `has` guard is missing.
RegisterUtilityClassUnguarded(className, lines, ctx) ==
    LET bs == GetBaseNameAndSuffix(className)
    IN  [ctx EXCEPT !.utilityClasses = @ \cup {className},
                    !.styleEntries = Append(@, [ className |-> className,
                                                 baseName  |-> bs.baseName,
                                                 suffix    |-> bs.suffix,
                                                 cssText   |-> CssText(className, lines) ])]

RegisterUtilityClass(className, lines, ctx) ==
    IF className \in ctx.utilityClasses THEN ctx
    ELSE LET bs == GetBaseNameAndSuffix(className)
         IN  [ctx EXCEPT !.utilityClasses = @ \cup {className},
                         !.styleEntries = Append(@, [ className |-> className,
                                                      baseName  |-> bs.baseName,
                                                      suffix    |-> bs.suffix,
                                                      cssText   |-> CssText(className, lines) ])]

\* className.match(/-(\d+)$/) ? Number(match[1]) : 0
SuffixOf(className) ==
    IF SuffixMatches(className) # {}
    THEN StrToNat(SubSeq(className, FirstMatch(className) + 1, Len(className)))
    ELSE 0

\* Mutant of GetClassForStyle: the signature map is never consulted.
GetClassForStyleNoLookup(baseName, lines, ctx) ==
    LET signature == Join(lines, NL)
        u         == GetUniqueClassName(baseName, ctx)
        className == u.ret
    IN  [ ret     |-> className,
          context |-> [u.context EXCEPT
                          !.styleMap = MapSet(@, signature, className),
                          !.styleEntries = Append(@, [ className |-> className,
                                                       baseName  |-> baseName,
                                                       suffix    |-> SuffixOf(className),
                                                       cssText   |-> CssText(className, lines) ])] ]

GetClassForStyle(baseName, lines, ctx) ==
    LET signature == Join(lines, NL)
        \* `if (existing)`: a class name that is present and not the empty text
        existing  == IF signature \in DOMAIN ctx.styleMap THEN ctx.styleMap[signature] ELSE <<>>
        u         == GetUniqueClassName(baseName, ctx)
        className == u.ret
    IN  IF existing # <<>>
        THEN [ ret |-> existing, context |-> ctx ]
        ELSE [ ret     |-> className,
               context |-> [u.context EXCEPT
                               !.styleMap = MapSet(@, signature, className),
                               !.styleEntries = Append(@, [ className |-> className,
                                                            baseName  |-> baseName,
                                                            suffix    |-> SuffixOf(className),
                                                            cssText   |-> CssText(className, lines) ])] ]

----------------------------------------------------------------------------
(* Numbers.  Lengths of the layout mapper (itemSpacing, padding,           *)
(* counterAxisSpacing) are integers counting tenths of a pixel, so that    *)
(* 7.6px and 8px are different values that Math.round brings together.     *)

Abs(n) == IF n < 0 THEN -n ELSE n

\* `${value}` for a number given in tenths
TenthsToText(v) ==
    (IF v < 0 THEN <<"-">> ELSE <<>>)
        \o NatToStr(Abs(v) \div 10)
        \o (IF Abs(v) % 10 = 0 THEN <<>> ELSE <<".", Digits[(Abs(v) % 10) + 1]>>)

\* Math.round(Math.abs(value)) for a value in tenths: halves round up
RoundAbsTenths(v) == (Abs(v) + 5) \div 10

formatNegativeClassValue(value) ==
    IF value < 0 THEN <<"n", "e", "g", "-">> \o NatToStr(RoundAbsTenths(value))
    ELSE NatToStr(RoundAbsTenths(value))

----------------------------------------------------------------------------
(* Layout mapper: registerFlexUtilities *)

mapPrimaryAxis(val) ==
    CASE val = "MIN" -> "flex-start"
      [] val = "MAX" -> "flex-end"
      [] val = "CENTER" -> "center"
      [] val = "SPACE_BETWEEN" -> "space-between"
      [] OTHER -> "flex-start"

mapCounterAxis(val) ==
    CASE val = "MIN" -> "flex-start"
      [] val = "MAX" -> "flex-end"
      [] val = "CENTER" -> "center"
      [] val = "BASELINE" -> "baseline"
      [] OTHER -> "stretch"

C_flex     == <<"f", "l", "e", "x">>
C_flexRow  == <<"f", "l", "e", "x", "-", "r", "o", "w">>
C_flexCol  == <<"f", "l", "e", "x", "-", "c", "o", "l">>
C_flexWrap == <<"f", "l", "e", "x", "-", "w", "r", "a", "p">>
C_contentBetween == <<"c", "o", "n", "t", "e", "n", "t", "-", "b", "e", "t", "w", "e", "e", "n">>
C_rowGap   == <<"r", "o", "w", "-", "g", "a", "p", "-">>
C_colGap   == <<"c", "o", "l", "u", "m", "n", "-", "g", "a", "p", "-">>
C_gap      == <<"g", "a", "p", "-">>
C_p        == <<"p", "-">>
C_pt       == <<"p", "t", "-">>
C_pr       == <<"p", "r", "-">>
C_pb       == <<"p", "b", "-">>
C_pl       == <<"p", "l", "-">>
C_justify  == <<"j", "u", "s", "t", "i", "f", "y", "-">>
C_items    == <<"i", "t", "e", "m", "s", "-">>
C_start    == <<"s", "t", "a", "r", "t">>
C_end      == <<"e", "n", "d">>
C_center   == <<"c", "e", "n", "t", "e", "r">>
C_between  == <<"b", "e", "t", "w", "e", "e", "n">>
C_baseline == <<"b", "a", "s", "e", "l", "i", "n", "e">>
C_stretch  == <<"s", "t", "r", "e", "t", "c", "h">>

\* One declaration line `  <prop>: <value>px;` for a length in tenths
PxLine(prop, v) == <<"  " , prop, ": ">> \o TenthsToText(v) \o <<"px;">>

\* One declaration line `  <prop>: <keyword>;`
KwLine(prop, kw) == <<"  ", prop, ": ", kw, ";">>

justifyClass(frame) ==
    C_justify \o (CASE frame.primaryAxisAlignItems = "MIN" -> C_start
                    [] frame.primaryAxisAlignItems = "MAX" -> C_end
                    [] frame.primaryAxisAlignItems = "CENTER" -> C_center
                    [] frame.primaryAxisAlignItems = "SPACE_BETWEEN" -> C_between
                    [] OTHER -> C_start)

\* Mutant of itemsClass: every counter alignment gives items-stretch.
itemsClassStretch(frame) == C_items \o C_stretch

itemsClass(frame) ==
    C_items \o (CASE frame.counterAxisAlignItems = "MIN" -> C_start
                  [] frame.counterAxisAlignItems = "MAX" -> C_end
                  [] frame.counterAxisAlignItems = "CENTER" -> C_center
                  [] frame.counterAxisAlignItems = "BASELINE" -> C_baseline
                  [] OTHER -> C_stretch)

\* The utility classes registerFlexUtilities asks for, in order, each with the
\* declaration lines it passes to registerUtilityClass.
FlexUtilityRequests(frame) ==
    LET horizontal == frame.layoutMode = "HORIZONTAL"
        \* frame.counterAxisSpacing ?? frame.itemSpacing
        counterSpacing == IF frame.counterAxisSpacing # Null
                          THEN frame.counterAxisSpacing[1] ELSE frame.itemSpacing
        wrapPart ==
            IF frame.layoutWrap = "WRAP"
            THEN <<[cls |-> C_flexWrap, lines |-> <<KwLine("flex-wrap", "wrap")>>]>>
                 \o (IF frame.counterAxisAlignContent = "SPACE_BETWEEN"
                     THEN <<[cls |-> C_contentBetween,
                             lines |-> <<KwLine("align-content", "space-between")>>]>>
                     ELSE <<>>)
                 \o (IF counterSpacing > 0
                     THEN IF horizontal
                          THEN <<[cls |-> C_rowGap \o formatNegativeClassValue(counterSpacing),
                                  lines |-> <<PxLine("row-gap", counterSpacing)>>]>>
                          ELSE <<[cls |-> C_colGap \o formatNegativeClassValue(counterSpacing),
                                  lines |-> <<PxLine("column-gap", counterSpacing)>>]>>
                     ELSE <<>>)
            ELSE <<>>
        gapPart ==
            IF frame.primaryAxisAlignItems # "SPACE_BETWEEN"
            THEN <<[cls |-> C_gap \o formatNegativeClassValue(frame.itemSpacing),
                    lines |-> <<PxLine("gap", frame.itemSpacing)>>]>>
            ELSE <<>>
        allSame == /\ frame.paddingTop = frame.paddingRight
                   /\ frame.paddingTop = frame.paddingBottom
                   /\ frame.paddingTop = frame.paddingLeft
        side(prefix, prop, v) ==
            IF v # 0
            THEN <<[cls |-> prefix \o formatNegativeClassValue(v), lines |-> <<PxLine(prop, v)>>]>>
            ELSE <<>>
        padPart ==
            IF allSame
            THEN <<[cls |-> C_p \o formatNegativeClassValue(frame.paddingTop),
                    lines |-> <<PxLine("padding", frame.paddingTop)>>]>>
            ELSE side(C_pt, "padding-top", frame.paddingTop)
                 \o side(C_pr, "padding-right", frame.paddingRight)
                 \o side(C_pb, "padding-bottom", frame.paddingBottom)
                 \o side(C_pl, "padding-left", frame.paddingLeft)
    IN  <<[cls |-> C_flex, lines |-> <<KwLine("display", "flex")>>],
          [cls |-> IF horizontal THEN C_flexRow ELSE C_flexCol,
           lines |-> <<KwLine("flex-direction", IF horizontal THEN "row" ELSE "column")>>]>>
        \o wrapPart \o gapPart \o padPart
        \o <<[cls |-> justifyClass(frame),
              lines |-> <<KwLine("justify-content", mapPrimaryAxis(frame.primaryAxisAlignItems))>>],
             [cls |-> itemsClass(frame),
              lines |-> <<KwLine("align-items", mapCounterAxis(frame.counterAxisAlignItems))>>]>>

\* registerUtilityClass applied to each request in turn
RECURSIVE RegisterAll(_, _)
RegisterAll(requests, ctx) ==
    IF Len(requests) = 0 THEN ctx
    ELSE RegisterAll(Tail(requests), RegisterUtilityClass(requests[1].cls, requests[1].lines, ctx))

\* The class list registerFlexUtilities returns, in push order
RECURSIVE ClassesOf(_)
ClassesOf(requests) ==
    IF Len(requests) = 0 THEN <<>>
    ELSE <<requests[1].cls>> \o ClassesOf(Tail(requests))

registerFlexUtilities(frame, ctx) ==
    LET requests == FlexUtilityRequests(frame)
    IN  [ ret     |-> ClassesOf(requests),
          context |-> RegisterAll(requests, ctx) ]

----------------------------------------------------------------------------
(* Document assembler: the stylesheet of exportSelection *)

\* Mutant of CompareEntries: the suffix is not compared.
CompareEntriesBaseOnly(a, b) ==
    localeCompare(a.baseName, b.baseName)

\* The comparator handed to styleEntries.sort
CompareEntries(a, b) ==
    LET baseCompare == localeCompare(a.baseName, b.baseName)
    IN  IF baseCompare # 0 THEN baseCompare ELSE a.suffix - b.suffix

\* Insert e after the last element that does not compare greater (stable)
RECURSIVE InsertSorted(_, _)
InsertSorted(sorted, e) ==
    IF Len(sorted) = 0 THEN <<e>>
    ELSE IF CompareEntries(sorted[Len(sorted)], e) <= 0 THEN Append(sorted, e)
    ELSE Append(InsertSorted(SubSeq(sorted, 1, Len(sorted) - 1), e), sorted[Len(sorted)])

\* Mutant of SortEntries: the entries are left in registration order.
SortEntriesUnsorted(entries) == entries

\* Array.prototype.sort with CompareEntries: a stable sort
RECURSIVE SortEntries(_)
SortEntries(entries) ==
    IF Len(entries) = 0 THEN <<>>
    ELSE InsertSorted(SortEntries(SubSeq(entries, 1, Len(entries) - 1)), entries[Len(entries)])

ResetRule == <<"body, p { margin: 0; }">> \o NL \o NL

\* The css of exportSelection (HTML format: no font @import)
SerializeCss(entries) ==
    LET sorted == SortEntries(entries)
    IN  ResetRule \o Concat([k \in 1..Len(sorted) |-> sorted[k].cssText])

----------------------------------------------------------------------------
(* Inputs of the registry run *)

\* How many registry calls one modelled run makes
MaxCalls == 3

\* Base names: sanitised layer names ("a", "a-2" from a layer called "a 2", "b")
Bases == { <<"a">>, <<"a", "-", "2">>, <<"b">> }

\* `  border-radius: ${roundDim(r)}px;`
RadiusLine(r) == <<"  border-radius: ">> \o NatToStr(r) \o <<"px;">>

\* The declaration lines of the rectangle branch: none (mixed radius) or one
StyleLines == { <<>>, <<RadiusLine(4)>>, <<RadiusLine(8)>> }

C_text   == <<"t", "e", "x", "t">>
C_text14 == <<"t", "e", "x", "t", "-", "1", "4">>

\* The utility classes the text branch registers directly
TextUtilities ==
    { [cls |-> C_text,   lines |-> <<>>],
      [cls |-> C_text14, lines |-> <<KwLine("font-size", "14px")>>] }

Frame(mode, wrap, content, counterSpacing, spacing, primary, counter, pt, pr, pb, pl) ==
    [ layoutMode |-> mode, layoutWrap |-> wrap, counterAxisAlignContent |-> content,
      counterAxisSpacing |-> counterSpacing, itemSpacing |-> spacing,
      primaryAxisAlignItems |-> primary, counterAxisAlignItems |-> counter,
      paddingTop |-> pt, paddingRight |-> pr, paddingBottom |-> pb, paddingLeft |-> pl ]

\* Auto-layout frames (lengths in tenths of a pixel): 8px and 7.6px gaps,
\* negative gaps and paddings, uniform and per-side padding, wrapping
Frames ==
    { Frame("HORIZONTAL", "NO_WRAP", "AUTO", Null, 80, "MIN", "MIN", 160, 160, 160, 160),
      Frame("VERTICAL", "WRAP", "SPACE_BETWEEN", Some(40), 76, "CENTER", "BASELINE", 0, 80, 0, -40),
      Frame("HORIZONTAL", "WRAP", "AUTO", Null, -40, "SPACE_BETWEEN", "CENTER", -40, -40, -40, -40),
      Frame("VERTICAL", "NO_WRAP", "AUTO", Null, 76, "MAX", "MAX", 0, 0, 0, 0) }

----------------------------------------------------------------------------
(* Spec: the registry calls of one conversion run, then the stylesheet *)

IdleOrder    == /\ contextB = NewContext /\ cssB = <<>> /\ plan = <<>> /\ order = <<>>
IdleSanitize == /\ sanIn = Null /\ sanOut = Null /\ sanTwice = Null
IdlePos      == /\ geom = Null /\ posFrame = Null /\ posGroup = Null
IdleMask     == /\ tree = Null /\ idx = 0 /\ emitted = <<>>
IdleElement  == /\ el = Null /\ elOut = Null
IdleRun      == /\ doc = Null /\ runs = <<>> /\ posted = <<>>
IdleWalk     == scene = Null /\ stack = <<>> /\ markup = <<>> /\ exported = <<>>
IdlePage     == IdleElement /\ IdleRun /\ IdleWalk

Init ==
    /\ pc = "running"
    /\ context = NewContext
    /\ calls = <<>>
    /\ css = <<>>
    /\ IdleOrder /\ IdleSanitize /\ IdlePos /\ IdleMask /\ IdlePage

\* nodeToHtmlCss, rectangle branch: className = getClassForStyle(baseName, styleLines, context)
CallGetClassForStyle ==
    \E base \in Bases, lines \in StyleLines :
        LET r == GetClassForStyle(base, lines, context)
        IN  /\ pc = "running"
            /\ Len(calls) < MaxCalls
            /\ context' = r.context
            /\ calls' = Append(calls, [ op |-> "getClassForStyle", base |-> base, lines |-> lines,
                                        ret |-> r.ret,
                                        minted |-> r.context.nameCounts # context.nameCounts ])
            /\ UNCHANGED <<pc, css, orderVars, sanitizeVars, posVars, maskVars, pageVars>>

\* nodeToHtmlCss, blurred rectangle/ellipse branch: getUniqueClassName(pascalName, context)
CallGetUniqueClassName ==
    \E base \in Bases :
        LET r == GetUniqueClassName(base, context)
        IN  /\ pc = "running"
            /\ Len(calls) < MaxCalls
            /\ context' = r.context
            /\ calls' = Append(calls, [ op |-> "getUniqueClassName", base |-> base, lines |-> <<>>,
                                        ret |-> r.ret, minted |-> TRUE ])
            /\ UNCHANGED <<pc, css, orderVars, sanitizeVars, posVars, maskVars, pageVars>>

\* nodeToHtmlCss, text branch: registerUtilityClass(sizeClass, ...), registerUtilityClass('text', [])
CallRegisterUtilityClass ==
    \E u \in TextUtilities :
        /\ pc = "running"
        /\ Len(calls) < MaxCalls
        /\ context' = RegisterUtilityClass(u.cls, u.lines, context)
        /\ calls' = Append(calls, [ op |-> "registerUtilityClass", base |-> u.cls, lines |-> u.lines,
                                    ret |-> u.cls, minted |-> FALSE ])
        /\ UNCHANGED <<pc, css, orderVars, sanitizeVars, posVars, maskVars, pageVars>>

\* nodeToHtmlCss, frame branch: classes.push(...registerFlexUtilities(frame, context))
CallRegisterFlexUtilities ==
    \E frame \in Frames :
        LET r == registerFlexUtilities(frame, context)
        IN  /\ pc = "running"
            /\ Len(calls) < MaxCalls
            /\ context' = r.context
            /\ calls' = Append(calls, [ op |-> "registerFlexUtilities", base |-> frame, lines |-> <<>>,
                                        ret |-> r.ret, minted |-> FALSE ])
            /\ UNCHANGED <<pc, css, orderVars, sanitizeVars, posVars, maskVars, pageVars>>

\* exportSelection after the walk: styleEntries.sort(...) in place, then map and join
Serialize ==
    /\ pc = "running"
    /\ context' = [context EXCEPT !.styleEntries = SortEntries(@)]
    /\ css' = SerializeCss(context.styleEntries)
    /\ pc' = "done"
    /\ UNCHANGED <<calls, orderVars, sanitizeVars, posVars, maskVars, pageVars>>

Next ==
    \/ CallGetClassForStyle
    \/ CallGetUniqueClassName
    \/ CallRegisterUtilityClass
    \/ CallRegisterFlexUtilities
    \/ Serialize

Spec == Init /\ [][Next]_vars

----------------------------------------------------------------------------
(* Claims about the style registry (Spec) *)

Range(seq) == { seq[rangeIndex] : rangeIndex \in 1..Len(seq) }

\* The logged calls of one operation
CallsOf(op) == { k \in 1..Len(calls) : calls[k].op = op }

\* The stylesheet entries recorded for the declaration lines `lines` by
\* getClassForStyle (utility entries are those named in utilityClasses)
SignatureEntries(lines) ==
    { k \in 1..Len(context.styleEntries) :
        /\ context.styleEntries[k].className \notin context.utilityClasses
        /\ context.styleEntries[k].cssText = CssText(context.styleEntries[k].className, lines) }

\* C1: two getClassForStyle calls of one run with textually identical
\* declaration lines return the same class name, whatever the base names, and
\* the stylesheet holds exactly one entry for that signature.
C1_IdempotentInterning ==
    /\ \A i, j \in CallsOf("getClassForStyle") :
          Join(calls[i].lines, NL) = Join(calls[j].lines, NL) => calls[i].ret = calls[j].ret
    /\ \A i \in CallsOf("getClassForStyle") :
          Cardinality(SignatureEntries(calls[i].lines)) = 1

\* Two calls with the same lines and different base names, the second after
\* other names were minted from its base
C1_Witness ==
    \E i, j \in CallsOf("getClassForStyle") :
        /\ i < j
        /\ calls[i].lines = calls[j].lines
        /\ calls[i].base # calls[j].base
        /\ calls[j].base \in DOMAIN context.nameCounts
        /\ calls[i].ret = calls[j].ret

\* C2 (as claimed): two getClassForStyle calls of one run whose declaration
\* texts differ never return the same class name.
C2_DistinctNames ==
    \A i, j \in CallsOf("getClassForStyle") :
        Join(calls[i].lines, NL) # Join(calls[j].lines, NL) => calls[i].ret # calls[j].ret

\* The names getUniqueClassName returned for `base`, in call order (directly
\* or when getClassForStyle minted a name)
RECURSIVE MintedFor(_, _)
MintedFor(base, log) ==
    IF Len(log) = 0 THEN <<>>
    ELSE LET rest == MintedFor(base, SubSeq(log, 1, Len(log) - 1))
             last == log[Len(log)]
         IN  IF /\ last.op \in {"getClassForStyle", "getUniqueClassName"}
                /\ last.minted
                /\ last.base = base
             THEN Append(rest, last.ret)
             ELSE rest

\* C3: the N calls of getUniqueClassName with one base return base, base-2,
\* ..., base-N in that order, whatever calls with other bases come between.
C3_UniqueNameSequence ==
    \A base \in Bases :
        LET names == MintedFor(base, calls)
        IN  \A k \in 1..Len(names) :
                names[k] = IF k = 1 THEN base ELSE base \o <<"-">> \o NatToStr(k)

\* A base minted at least twice, the last time by getUniqueClassName after
\* a name was minted for another base
C3_Witness ==
    \E base \in Bases :
        /\ Len(MintedFor(base, calls)) >= 2
        /\ \E k \in 1..Len(calls) :
              /\ calls[k].op \in {"getClassForStyle", "getUniqueClassName"}
              /\ calls[k].minted
              /\ calls[k].base # base
              /\ k < Len(calls)
              /\ calls[Len(calls)].base = base
              /\ calls[Len(calls)].op = "getUniqueClassName"

\* C4: the first registerUtilityClass call with a class name adds the name
\* to the utility set and one entry to the stylesheet; every later call with
\* that name leaves the utility set and the stylesheet entries unchanged.
C4_UtilityOnce ==
    [][ (/\ Len(calls') = Len(calls) + 1
         /\ calls'[Len(calls')].op = "registerUtilityClass")
        => LET cls == calls'[Len(calls')].base
           IN  IF cls \in context.utilityClasses
               THEN /\ context'.utilityClasses = context.utilityClasses
                    /\ context'.styleEntries = context.styleEntries
               ELSE /\ context'.utilityClasses = context.utilityClasses \cup {cls}
                    /\ Len(context'.styleEntries) = Len(context.styleEntries) + 1
                    /\ context'.styleEntries[Len(context'.styleEntries)].className = cls
      ]_vars

\* A utility class registered a second time
C4_Witness ==
    \E i, j \in CallsOf("registerUtilityClass") :
        /\ i < j
        /\ calls[i].base = calls[j].base
        /\ Cardinality({ k \in 1..Len(context.styleEntries) :
                            context.styleEntries[k].className = calls[i].base }) = 1

\* C6: in the serialised stylesheet the entries are in ascending order of
\* (baseName, suffix): base names in collation order, and within one base
\* name the suffixes in numeric order, suffix 0 (unsuffixed) first.
C6_SortedStylesheet ==
    pc = "done" =>
        /\ css = ResetRule \o Concat([k \in 1..Len(context.styleEntries) |->
                                         context.styleEntries[k].cssText])
        /\ \A i, j \in 1..Len(context.styleEntries) :
              i < j =>
                LET a == context.styleEntries[i]
                    b == context.styleEntries[j]
                IN  \/ localeCompare(a.baseName, b.baseName) < 0
                    \/ /\ a.baseName = b.baseName
                       /\ a.suffix <= b.suffix

\* A finished run whose stylesheet holds an unsuffixed entry and a suffixed
\* one of the same base that was registered first
C6_Witness ==
    /\ pc = "done"
    /\ Len(calls) >= 2
    /\ calls[1].op = "registerUtilityClass"
    /\ calls[1].base = C_text14
    /\ calls[2].op = "registerUtilityClass"
    /\ calls[2].base = C_text
    /\ \E i, j \in 1..Len(context.styleEntries) :
          /\ i < j
          /\ context.styleEntries[i].className = C_text
          /\ context.styleEntries[j].className = C_text14

\* The class name and the rule a container's length asks for
LengthRule(prefix, prop, v) ==
    [ cls     |-> prefix \o formatNegativeClassValue(v),
      cssText |-> CssText(prefix \o formatNegativeClassValue(v), <<PxLine(prop, v)>>) ]

\* The gap and padding utilities of one frame: class name and the rule that
\* declares the frame's own value
FrameLengthRules(frame) ==
    (IF frame.primaryAxisAlignItems # "SPACE_BETWEEN"
     THEN {LengthRule(C_gap, "gap", frame.itemSpacing)} ELSE {})
    \cup
    (IF /\ frame.paddingTop = frame.paddingRight
        /\ frame.paddingTop = frame.paddingBottom
        /\ frame.paddingTop = frame.paddingLeft
     THEN {LengthRule(C_p, "padding", frame.paddingTop)}
     ELSE { LengthRule(side[1], side[2], side[3]) :
              side \in { x \in { <<C_pt, "padding-top", frame.paddingTop>>,
                                 <<C_pr, "padding-right", frame.paddingRight>>,
                                 <<C_pb, "padding-bottom", frame.paddingBottom>>,
                                 <<C_pl, "padding-left", frame.paddingLeft>> } : x[3] # 0 } })

\* C10 (as claimed): for every container of the run the gap and padding
\* classes are named by formatNegativeClassValue of the value, and the rule
\* the stylesheet records for each such class declares that container's own
\* signed value in pixels.
C10_LengthRoundTrip ==
    \A c \in CallsOf("registerFlexUtilities") :
        \A r \in FrameLengthRules(calls[c].base) :
            /\ r.cls \in Range(calls[c].ret)
            /\ \E e \in Range(context.styleEntries) :
                  e.className = r.cls /\ e.cssText = r.cssText

----------------------------------------------------------------------------
(* Name sanitisation: sanitizeName *)

LowerLetters ==
    { "a", "b", "c", "d", "e", "f", "g", "h", "i", "j", "k", "l", "m",
      "n", "o", "p", "q", "r", "s", "t", "u", "v", "w", "x", "y", "z" }

\* String.prototype.toLowerCase, one character: U+0130 (capital I with dot
\* above) lowers to two code units, i and the combining dot U+0307
LowerChar(c) ==
    CASE c = "A"      -> <<"a">>
      [] c = "Z"      -> <<"z">>
      [] c = "U+0130" -> <<"i", "U+0307">>
      [] OTHER        -> <<c>>

RECURSIVE toLowerCase(_)
toLowerCase(s) ==
    IF s = <<>> THEN <<>> ELSE LowerChar(Head(s)) \o toLowerCase(Tail(s))

\* .replace(/[^a-z0-9-_ ]/g, '')
RECURSIVE KeepAllowed(_)
KeepAllowed(s) ==
    IF s = <<>> THEN <<>>
    ELSE (IF Head(s) \in LowerLetters \cup {"-", "_", " "} \/ IsDigit(Head(s))
          THEN <<Head(s)>> ELSE <<>>) \o KeepAllowed(Tail(s))

\* \s of a regular expression and the white space String.prototype.trim removes
IsSpace(c) == c \in {" ", "\t"}

RECURSIVE DropLeading(_, _)
DropLeading(s, set) ==
    IF s # <<>> /\ Head(s) \in set THEN DropLeading(Tail(s), set) ELSE s

RECURSIVE DropTrailing(_, _)
DropTrailing(s, set) ==
    IF s # <<>> /\ s[Len(s)] \in set THEN DropTrailing(SubSeq(s, 1, Len(s) - 1), set) ELSE s

\* .trim()
Trim(s) == DropTrailing(DropLeading(s, {" ", "\t"}), {" ", "\t"})

\* .replace(/\s+/g, '-'): each maximal run of white space becomes one hyphen
RECURSIVE SpacesToHyphen(_)
SpacesToHyphen(s) ==
    IF s = <<>> THEN <<>>
    ELSE IF IsSpace(Head(s))
         THEN <<"-">> \o SpacesToHyphen(DropLeading(s, {" ", "\t"}))
         ELSE <<Head(s)>> \o SpacesToHyphen(Tail(s))

\* .replace(/^-+|-+$/g, '')
StripHyphens(s) == DropTrailing(DropLeading(s, {"-"}), {"-"})

\* Mutant of sanitizeName: the hyphens are stripped before the white space
\* is replaced.
sanitizeNameHyphensFirst(name) ==
    SpacesToHyphen(StripHyphens(Trim(KeepAllowed(toLowerCase(name)))))

sanitizeName(name) ==
    StripHyphens(SpacesToHyphen(Trim(KeepAllowed(toLowerCase(name)))))

\* Layer names: one character of each class sanitizeName tells apart
MaxLen == 4
NameChars == {"A", "b", "2", "-", "_", " ", "\t", "!", "U+0130"}

RECURSIVE NamesUpTo(_)
NamesUpTo(n) ==
    IF n = 0 THEN {<<>>}
    ELSE LET shorter == NamesUpTo(n - 1)
         IN  shorter \cup { Append(s, c) : s \in { x \in shorter : Len(x) = n - 1 }, c \in NameChars }

InitSanitize ==
    /\ pc = "named"
    /\ sanIn \in { Some(name) : name \in NamesUpTo(MaxLen) }
    /\ sanOut = Null
    /\ sanTwice = Null
    /\ context = NewContext /\ calls = <<>> /\ css = <<>>
    /\ IdleOrder /\ IdlePos /\ IdleMask /\ IdlePage

\* sanitizeName(node.name)
SanitizeOnce ==
    /\ pc = "named"
    /\ sanOut' = Some(sanitizeName(sanIn[1]))
    /\ pc' = "sanitized"
    /\ UNCHANGED <<sanIn, sanTwice, registryVars, orderVars, posVars, maskVars, pageVars>>

\* sanitizeName applied to its own result
SanitizeAgain ==
    /\ pc = "sanitized"
    /\ sanTwice' = Some(sanitizeName(sanOut[1]))
    /\ pc' = "resanitized"
    /\ UNCHANGED <<sanIn, sanOut, registryVars, orderVars, posVars, maskVars, pageVars>>

NextSanitize ==
    \/ SanitizeOnce
    \/ SanitizeAgain

SpecSanitize == InitSanitize /\ [][NextSanitize]_vars

\* C7: sanitizeName is idempotent: applied to its own result it returns that
\* result unchanged, for every layer name.
C7_SanitizeIdempotent ==
    pc = "resanitized" => sanTwice = sanOut

\* A name the first application changed in several steps: a leading hyphen
\* stripped, white space turned into an inner hyphen
C7_Witness ==
    /\ pc = "resanitized"
    /\ sanOut[1] # <<>>
    /\ "-" \in Range(sanOut[1])
    /\ " " \in Range(sanIn[1])
    /\ sanIn[1][1] = "-"
    /\ sanTwice = sanOut

----------------------------------------------------------------------------
(* Geometry resolver: getAbsolutePositionStyles, getGroupChildPositionStyles. *)
(* Coordinates and sizes are integers counting thousandths of a pixel,       *)
(* rotations thousandths of a degree; roundPx yields hundredths.  The        *)
(* inputs avoid values whose third decimal is 5, where the floating-point    *)
(* product n * 100 may fall on either side of the half.                      *)

\* Math.round(n * 100) / 100 for n in thousandths, in hundredths: halves up
roundPx(n) == (n + 5) \div 10

\* Math.round(v) for v in hundredths
RoundHundredths(v) == (v + 50) \div 100

\* Math.abs(r) >= 0.01 for r in thousandths of a degree
isMeaningfulRotation(r) == Abs(r) >= 10

cssRotationDeg(rotation) == roundPx(-rotation)

\* `${value}` for a number given in hundredths
HundredthsToText(v) ==
    LET frac == Abs(v) % 100
    IN  (IF v < 0 THEN <<"-">> ELSE <<>>)
            \o NatToStr(Abs(v) \div 100)
            \o (IF frac = 0 THEN <<>>
                ELSE IF frac % 10 = 0 THEN <<".", Digits[(frac \div 10) + 1]>>
                ELSE <<".", Digits[(frac \div 10) + 1], Digits[(frac % 10) + 1]>>)

\* `<prop>: <value>px` for a value in hundredths
PosPx(prop, v) == <<prop, ": ">> \o HundredthsToText(v) \o <<"px">>

\* One switch over a constraint: the declarations pushed to styles and the
\* parts pushed to transformParts.  `start` and `center` are in thousandths.
AxisStyles(constraint, lowProp, highProp, translate, start, center, size, parentSize) ==
    LET low    == roundPx(start)
        high   == roundPx(parentSize - (start + size))
        offset == roundPx(center - parentSize \div 2)
    IN  CASE constraint = "MAX" ->
               [ styles |-> <<PosPx(highProp, high)>>, parts |-> <<>> ]
          [] constraint = "CENTER" ->
               [ styles |-> << <<lowProp, ": ", "50%">> >>,
                 parts  |-> << <<translate, "(-50%)">> >>
                            \o (IF RoundHundredths(offset) # 0
                                THEN << <<translate, "(">> \o HundredthsToText(offset) \o <<"px)">> >>
                                ELSE <<>>) ]
          [] constraint = "STRETCH" ->
               [ styles |-> <<PosPx(lowProp, low), PosPx(highProp, high)>>, parts |-> <<>> ]
          [] OTHER ->
               [ styles |-> <<PosPx(lowProp, low)>>, parts |-> <<>> ]

\* The rotation and transform declarations that end both functions
TransformStyles(rot, parts) ==
    LET allParts == parts \o (IF isMeaningfulRotation(rot)
                              THEN << <<"rotate(">> \o HundredthsToText(cssRotationDeg(rot)) \o <<"deg)">> >>
                              ELSE <<>>)
    IN  (IF isMeaningfulRotation(rot) THEN << <<"transform-origin", ": ", "0 0">> >> ELSE <<>>)
        \o (IF Len(allParts) > 0
            THEN << <<"transform", ": ">> \o Join(allParts, <<" ">>) >>
            ELSE <<>>)

\* `z-index: ${zIndex}` when the node is among parent.children
ZIndexStyles(index) ==
    IF index >= 0 THEN << <<"z-index", ": ">> \o NatToStr(index) >> ELSE <<>>

\* Mutant of getAbsolutePositionStyles: the residual is measured from the
\* node's left/top edge, not from its centre.
getAbsolutePositionStylesFromEdge(node, parentFrame) ==
    IF parentFrame = Null \/ node.layoutPositioning # "ABSOLUTE" THEN <<>>
    ELSE LET h == AxisStyles(node.constraints.horizontal, "left", "right", "translateX",
                             node.x, node.x, node.width, parentFrame[1].width)
             v == AxisStyles(node.constraints.vertical, "top", "bottom", "translateY",
                             node.y, node.y, node.height, parentFrame[1].height)
         IN  << <<"position", ": ", "absolute">> >> \o ZIndexStyles(node.index)
                 \o h.styles \o v.styles \o TransformStyles(node.rotation, h.parts \o v.parts)

getAbsolutePositionStyles(node, parentFrame) ==
    IF parentFrame = Null \/ node.layoutPositioning # "ABSOLUTE" THEN <<>>
    ELSE LET h == AxisStyles(node.constraints.horizontal, "left", "right", "translateX",
                             node.x, node.x + node.width \div 2, node.width, parentFrame[1].width)
             v == AxisStyles(node.constraints.vertical, "top", "bottom", "translateY",
                             node.y, node.y + node.height \div 2, node.height, parentFrame[1].height)
         IN  << <<"position", ": ", "absolute">> >> \o ZIndexStyles(node.index)
                 \o h.styles \o v.styles \o TransformStyles(node.rotation, h.parts \o v.parts)

\* The position inside the group that getGroupChildPositionStyles reads:
\* the difference of the absolute bounding boxes when both exist and the node
\* is not rotated, node.x / node.y otherwise
GroupLocal(node, parentGroup) ==
    IF /\ parentGroup.absoluteBoundingBox # Null
       /\ node.absoluteBoundingBox # Null
       /\ ~isMeaningfulRotation(node.rotation)
    THEN [ left |-> node.absoluteBoundingBox[1].x - parentGroup.absoluteBoundingBox[1].x,
           top  |-> node.absoluteBoundingBox[1].y - parentGroup.absoluteBoundingBox[1].y ]
    ELSE [ left |-> node.x, top |-> node.y ]

getGroupChildPositionStyles(node, parentGroup) ==
    LET at == GroupLocal(node, parentGroup)
        h  == AxisStyles(node.constraints.horizontal, "left", "right", "translateX",
                         at.left, at.left + node.width \div 2, node.width, parentGroup.width)
        v  == AxisStyles(node.constraints.vertical, "top", "bottom", "translateY",
                         at.top, at.top + node.height \div 2, node.height, parentGroup.height)
    IN  << <<"position", ": ", "absolute">> >> \o ZIndexStyles(node.index)
            \o h.styles \o v.styles \o TransformStyles(node.rotation, h.parts \o v.parts)

\* Nodes and containers (thousandths): a 50x20 node in a 200x100 container,
\* at the origin, centred, off centre by 0.4px and by 0.6px, and at the far
\* edge; unrotated, rotated below the 0.01 degree threshold, and rotated
PosXs == {0, 75000, 75400, 75600, 150000}
PosYs == {0, 40000, 40400, 80000}
Constraints == {"MIN", "MAX", "CENTER", "STRETCH", "SCALE"}
Rotations == {0, 4, 30000}
GroupOrigins == { [x |-> 0, y |-> 0], [x |-> 10000, y |-> 5000] }

\* A node at (x, y) inside the container; a group does not set up a
\* coordinate space, so node.x / node.y of a group's child count from the
\* frame that holds the group, whose origin is `origin`
PosNode(x, y, horizontal, vertical, rotation, positioning, origin, boxes) ==
    [ x |-> x + origin.x, y |-> y + origin.y, width |-> 50000, height |-> 20000,
      rotation |-> rotation, layoutPositioning |-> positioning, index |-> 1,
      constraints |-> [horizontal |-> horizontal, vertical |-> vertical],
      absoluteBoundingBox |-> IF boxes THEN Some([x |-> 300000 + origin.x + x,
                                                  y |-> 200000 + origin.y + y])
                              ELSE Null ]

PosParent(kind, origin, boxes) ==
    [ kind |-> kind, width |-> 200000, height |-> 100000,
      absoluteBoundingBox |-> IF boxes THEN Some([x |-> 300000 + origin.x, y |-> 200000 + origin.y])
                              ELSE Null ]

Geometries ==
    { [ node   |-> PosNode(x, y, ch, cv, rot, "ABSOLUTE", [x |-> 0, y |-> 0], TRUE),
        parent |-> PosParent("FRAME", [x |-> 0, y |-> 0], TRUE) ] :
          x \in PosXs, y \in PosYs, ch \in Constraints, cv \in Constraints, rot \in Rotations }
    \cup
    { [ node   |-> PosNode(0, 0, "CENTER", "CENTER", 0, "AUTO", [x |-> 0, y |-> 0], TRUE),
        parent |-> PosParent("FRAME", [x |-> 0, y |-> 0], TRUE) ] }
    \cup
    { [ node   |-> PosNode(x, y, ch, cv, rot, "AUTO", origin, boxes),
        parent |-> PosParent("GROUP", origin, boxes) ] :
          x \in PosXs, y \in PosYs, ch \in {"MIN", "CENTER"}, cv \in {"MAX", "CENTER"},
          rot \in Rotations, origin \in GroupOrigins, boxes \in BOOLEAN }

InitPos ==
    /\ pc = "placed"
    /\ geom \in { Some(g) : g \in Geometries }
    /\ posFrame = Null
    /\ posGroup = Null
    /\ context = NewContext /\ calls = <<>> /\ css = <<>>
    /\ IdleOrder /\ IdleSanitize /\ IdleMask /\ IdlePage

\* nodeToHtmlCss: inlineStyles.push(...getAbsolutePositionStyles(rect, parentFrame))
PositionInFrame ==
    /\ pc = "placed"
    /\ geom[1].parent.kind = "FRAME"
    /\ posFrame' = Some(getAbsolutePositionStyles(geom[1].node, Some(geom[1].parent)))
    /\ pc' = "styled"
    /\ UNCHANGED <<geom, posGroup, registryVars, orderVars, sanitizeVars, maskVars, pageVars>>

\* nodeToHtmlCss: inlineStyles.push(...getGroupChildPositionStyles(rect, parentGroup))
PositionInGroup ==
    /\ pc = "placed"
    /\ geom[1].parent.kind = "GROUP"
    /\ posGroup' = Some(getGroupChildPositionStyles(geom[1].node, geom[1].parent))
    /\ pc' = "styled"
    /\ UNCHANGED <<geom, posFrame, registryVars, orderVars, sanitizeVars, maskVars, pageVars>>

NextPos ==
    \/ PositionInFrame
    \/ PositionInGroup

SpecPos == InitPos /\ [][NextPos]_vars

(* Claims about the geometry resolver (SpecPos) *)

\* The declarations the run pushed for the node's position
PosStyles == IF geom[1].parent.kind = "FRAME" THEN posFrame[1] ELSE posGroup[1]

\* The node's position inside its container
PosLocal ==
    IF geom[1].parent.kind = "FRAME"
    THEN [ left |-> geom[1].node.x, top |-> geom[1].node.y ]
    ELSE GroupLocal(geom[1].node, geom[1].parent)

\* An absolutely positioned, unrotated child with CENTER/CENTER constraints
\* whose position has been computed
CenterCase ==
    /\ pc = "styled"
    /\ geom[1].node.constraints = [horizontal |-> "CENTER", vertical |-> "CENTER"]
    /\ ~isMeaningfulRotation(geom[1].node.rotation)
    /\ geom[1].parent.kind = "FRAME" => geom[1].node.layoutPositioning = "ABSOLUTE"

\* translate<axis>(-50%), followed by translate<axis>(<d>px) exactly when d
\* (hundredths of a pixel) rounds to a non-zero number of pixels
CenterTranslate(translate, d) ==
    <<translate, "(-50%)">>
        \o (IF d >= 50 \/ d < -50
            THEN <<" ", translate, "(">> \o HundredthsToText(d) \o <<"px)">>
            ELSE <<>>)

\* transform: translateX(-50%) translateY(-50%)
PlainCenterTransform ==
    <<"transform", ": ", "translateX", "(-50%)", " ", "translateY", "(-50%)">>

\* transform: translateX(-50%) translateX(-75px) translateY(-50%) translateY(-40px)
OriginCenterTransform ==
    <<"transform", ": ", "translateX", "(-50%)", " ", "translateX", "(", "-", "7", "5", "px)",
      " ", "translateY", "(-50%)", " ", "translateY", "(", "-", "4", "0", "px)">>

\* C8 (amended): for a 50x20 child of a 200x100 container with CENTER/CENTER
\* constraints and no rotation, the declarations include left: 50%, top: 50%
\* and exactly one transform, which is translateX(-50%) translateY(-50%) with
\* a pixel translate appended per axis exactly when the offset of the child's
\* centre from the container's centre rounds to a non-zero pixel count: for
\* the child at local (0,0) it carries translateX(-75px) and
\* translateY(-40px), and only for the child whose centre is the container's
\* (local (75,40)) it is translateX(-50%) translateY(-50%) alone.
C8_CenterPosition ==
    CenterCase =>
        LET dx == roundPx(PosLocal.left + 25000 - 100000)
            dy == roundPx(PosLocal.top + 10000 - 50000)
        IN  /\ <<"left", ": ", "50%">> \in Range(PosStyles)
            /\ <<"top", ": ", "50%">> \in Range(PosStyles)
            /\ Cardinality({ k \in 1..Len(PosStyles) : PosStyles[k][1] = "transform" }) = 1
            /\ (<<"transform", ": ">> \o CenterTranslate("translateX", dx)
                    \o <<" ">> \o CenterTranslate("translateY", dy)) \in Range(PosStyles)
            /\ (PosLocal = [left |-> 0, top |-> 0]) => OriginCenterTransform \in Range(PosStyles)
            /\ (PosLocal = [left |-> 75000, top |-> 40000]) => PlainCenterTransform \in Range(PosStyles)

\* The child at local (0,0) of a frame, positioned: its transform carries
\* the pixel translates
C8_Witness ==
    /\ CenterCase
    /\ geom[1].parent.kind = "FRAME"
    /\ geom[1].node.rotation = 0
    /\ PosLocal = [left |-> 0, top |-> 0]
    /\ OriginCenterTransform \in Range(PosStyles)

\* C8 (as claimed): for the child at local (0,0) the declarations include
\* left: 50%, top: 50% and the transform translateX(-50%) translateY(-50%)
\* with no pixel translate.
C8_AsClaimed ==
    (CenterCase /\ geom[1].node.rotation = 0 /\ PosLocal = [left |-> 0, top |-> 0]) =>
        /\ <<"left", ": ", "50%">> \in Range(PosStyles)
        /\ <<"top", ": ", "50%">> \in Range(PosStyles)
        /\ PlainCenterTransform \in Range(PosStyles)

----------------------------------------------------------------------------
(* SpecOrder: one tree converted twice, its nodes visited in two orders *)

MaxPlan == 3

\* The registry call a leaf node gives rise to: a rectangle interns its
\* border-radius line under its base name, a text node registers text-<size>
\* or, without a font size, text
PlanNodes ==
    { [op |-> "getClassForStyle", base |-> base, lines |-> lines] :
        base \in {<<"a">>, <<"a", "-", "2">>}, lines \in {<<>>, <<RadiusLine(4)>>} }
    \cup
    { [op |-> "registerUtilityClass", base |-> u.cls, lines |-> u.lines] : u \in TextUtilities }

\* The context after visiting one node
VisitNode(node, ctx) ==
    IF node.op = "getClassForStyle"
    THEN GetClassForStyle(node.base, node.lines, ctx).context
    ELSE RegisterUtilityClass(node.base, node.lines, ctx)

\* The visit orders of n nodes: the permutations of 1..n
VisitOrders(n) ==
    { p \in [1..n -> 1..n] : \A i, j \in 1..n : p[i] = p[j] => i = j }

InitOrder ==
    /\ pc = "visiting"
    /\ \E n \in 1..MaxPlan :
          /\ plan \in [1..n -> PlanNodes]
          /\ order \in VisitOrders(n)
    /\ context = NewContext
    /\ contextB = NewContext
    /\ calls = <<>>
    /\ css = <<>>
    /\ cssB = <<>>
    /\ IdleSanitize /\ IdlePos /\ IdleMask /\ IdlePage

\* nodeToHtmlCss on the next node of each order
OrderVisit ==
    /\ pc = "visiting"
    /\ Len(calls) < Len(plan)
    /\ LET k == Len(calls) + 1
       IN  /\ context' = VisitNode(plan[k], context)
           /\ contextB' = VisitNode(plan[order[k]], contextB)
           /\ calls' = Append(calls, plan[k])
    /\ UNCHANGED <<pc, css, cssB, plan, order, sanitizeVars, posVars, maskVars, pageVars>>

\* exportSelection after the walk, in both runs
OrderSerialize ==
    /\ pc = "visiting"
    /\ Len(calls) = Len(plan)
    /\ context' = [context EXCEPT !.styleEntries = SortEntries(@)]
    /\ contextB' = [contextB EXCEPT !.styleEntries = SortEntries(@)]
    /\ css' = SerializeCss(context.styleEntries)
    /\ cssB' = SerializeCss(contextB.styleEntries)
    /\ pc' = "done"
    /\ UNCHANGED <<calls, plan, order, sanitizeVars, posVars, maskVars, pageVars>>

NextOrder ==
    \/ OrderVisit
    \/ OrderSerialize

SpecOrder == InitOrder /\ [][NextOrder]_vars

SameEntries ==
    /\ Range(context.styleEntries) = Range(contextB.styleEntries)
    /\ Len(context.styleEntries) = Len(contextB.styleEntries)
    /\ \A i, j \in 1..Len(context.styleEntries) :
          (/\ context.styleEntries[i].baseName = context.styleEntries[j].baseName
           /\ context.styleEntries[i].suffix = context.styleEntries[j].suffix) => i = j

----------------------------------------------------------------------------
(* Tree walker: the mask-run scan of the children loops of nodeToHtmlCss. *)
(* A node of the output is named by its path of 1-based sibling indices.   *)

isMaskNode(node) == node.isMask

\* getClipPathFromMaskNode: a clip-path for the shapes it knows, null for
\* every other node type (vectors, text, lines, ...)
getClipPathFromMaskNode(node) ==
    IF node.type = "RECTANGLE" THEN Some("inset(0)")
    ELSE IF node.type = "ELLIPSE" THEN Some("ellipse(50% 50% at 50% 50%)")
    ELSE IF node.type \in {"FRAME", "GROUP", "COMPONENT", "INSTANCE"} THEN Some("inset(0)")
    ELSE Null

\* Mutant of NextMask: the scan for the next mask stays at the mask
NextMaskStuck(children, k) == k - 1

\* let k = i + 1; while (k < children.length && !isMaskNode(children[k])) k++
RECURSIVE NextMask(_, _)
NextMask(children, k) ==
    IF k <= Len(children) /\ ~isMaskNode(children[k]) THEN NextMask(children, k + 1) ELSE k

RECURSIVE ScanFrom(_, _, _)
RECURSIVE EmitNode(_, _, _)

\* nodeToHtmlCss(child, ...): the markup of one node, placed directly in its
\* container (wrapper = Null) or in the wrapper of the mask at path
\* wrapper[1]; a group's markup holds the scan of its own children
EmitNode(node, path, wrapper) ==
    [ path    |-> path,
      wrapper |-> wrapper,
      inner   |-> IF node.type = "GROUP" THEN ScanFrom(node.children, 1, path) ELSE <<>> ]

\* One iteration of a children loop at index i: what it appends to the
\* markup and the index it continues with
ScanStep(children, i, prefix) ==
    IF isMaskNode(children[i])
    THEN LET clipPath    == getClipPathFromMaskNode(children[i])
             k           == NextMask(children, i + 1)
             maskedCount == k - i - 1
         IN  [ items |-> <<EmitNode(children[i], Append(prefix, i), Null)>>
                         \o (IF clipPath # Null /\ maskedCount > 0
                             THEN [ m \in 1..maskedCount |->
                                      EmitNode(children[i + m], Append(prefix, i + m),
                                               Some(Append(prefix, i))) ]
                             ELSE <<>>),
               next  |-> k ]
    ELSE [ items |-> <<EmitNode(children[i], Append(prefix, i), Null)>>,
           next  |-> i + 1 ]

\* The children loop from index i to the end of the list
ScanFrom(children, i, prefix) ==
    IF i > Len(children) THEN <<>>
    ELSE LET step == ScanStep(children, i, prefix)
         IN  step.items \o ScanFrom(children, step.next, prefix)

\* Sibling lists: rectangles and vectors, masks of both kinds, a group that
\* holds a masked run and a group that is itself a mask
MaxSiblings == 5
Rect(isMask)   == [ type |-> "RECTANGLE", isMask |-> isMask, children |-> <<>> ]
Vector(isMask) == [ type |-> "VECTOR", isMask |-> isMask, children |-> <<>> ]
Group(isMask, children) == [ type |-> "GROUP", isMask |-> isMask, children |-> children ]

ChildNodes ==
    { Rect(FALSE), Rect(TRUE), Vector(TRUE),
      Group(FALSE, <<Rect(TRUE), Rect(FALSE)>>),
      Group(TRUE, <<Rect(FALSE)>>) }

Containers ==
    { [ type |-> "FRAME", layoutMode |-> "NONE" ],
      [ type |-> "FRAME", layoutMode |-> "HORIZONTAL" ],
      [ type |-> "GROUP", layoutMode |-> "NONE" ] }

RECURSIVE SiblingLists(_)
SiblingLists(n) ==
    IF n = 0 THEN {<<>>}
    ELSE LET shorter == SiblingLists(n - 1)
         IN  shorter \cup { Append(l, c) : l \in { x \in shorter : Len(x) = n - 1 }, c \in ChildNodes }

InitMask ==
    /\ pc = "scanning"
    /\ tree \in { Some([ container |-> c, children |-> l ]) :
                    c \in Containers, l \in SiblingLists(MaxSiblings) \ {<<>>} }
    /\ idx = 1
    /\ emitted = <<>>
    /\ context = NewContext /\ calls = <<>> /\ css = <<>>
    /\ IdleOrder /\ IdleSanitize /\ IdlePos /\ IdlePage

\* The child the loop is at, when there is one
AtChild == pc = "scanning" /\ idx <= Len(tree[1].children)
InFrame == tree[1].container.type = "FRAME"
Flattens ==
    /\ tree[1].container.layoutMode = "NONE"
    /\ tree[1].children[idx].type = "GROUP"

\* Frame loop: a group directly in a frame without auto layout is not
\* emitted; its children are scanned in its place
FrameFlattenGroup ==
    /\ AtChild /\ InFrame /\ Flattens
    /\ emitted' = emitted \o ScanFrom(tree[1].children[idx].children, 1, <<idx>>)
    /\ idx' = idx + 1
    /\ UNCHANGED <<pc, tree, registryVars, orderVars, sanitizeVars, posVars, pageVars>>

\* Frame loop: a mask node and the run after it
FrameMaskRun ==
    /\ AtChild /\ InFrame /\ ~Flattens
    /\ isMaskNode(tree[1].children[idx])
    /\ LET step == ScanStep(tree[1].children, idx, <<>>)
       IN  emitted' = emitted \o step.items /\ idx' = step.next
    /\ UNCHANGED <<pc, tree, registryVars, orderVars, sanitizeVars, posVars, pageVars>>

\* Frame loop: any other child
FramePlainChild ==
    /\ AtChild /\ InFrame /\ ~Flattens
    /\ ~isMaskNode(tree[1].children[idx])
    /\ LET step == ScanStep(tree[1].children, idx, <<>>)
       IN  emitted' = emitted \o step.items /\ idx' = step.next
    /\ UNCHANGED <<pc, tree, registryVars, orderVars, sanitizeVars, posVars, pageVars>>

\* Group loop: a mask node and the run after it
GroupMaskRun ==
    /\ AtChild /\ ~InFrame
    /\ isMaskNode(tree[1].children[idx])
    /\ LET step == ScanStep(tree[1].children, idx, <<>>)
       IN  emitted' = emitted \o step.items /\ idx' = step.next
    /\ UNCHANGED <<pc, tree, registryVars, orderVars, sanitizeVars, posVars, pageVars>>

\* Group loop: any other child
GroupPlainChild ==
    /\ AtChild /\ ~InFrame
    /\ ~isMaskNode(tree[1].children[idx])
    /\ LET step == ScanStep(tree[1].children, idx, <<>>)
       IN  emitted' = emitted \o step.items /\ idx' = step.next
    /\ UNCHANGED <<pc, tree, registryVars, orderVars, sanitizeVars, posVars, pageVars>>

\* The loop ends and the container's closing tag is written
ScanDone ==
    /\ pc = "scanning"
    /\ idx > Len(tree[1].children)
    /\ pc' = "done"
    /\ UNCHANGED <<tree, idx, emitted, registryVars, orderVars, sanitizeVars, posVars, pageVars>>

NextMaskScan ==
    \/ FrameFlattenGroup
    \/ FrameMaskRun
    \/ FramePlainChild
    \/ GroupMaskRun
    \/ GroupPlainChild
    \/ ScanDone

SpecMask == InitMask /\ [][NextMaskScan]_vars

\* The siblings a mask at index i applies to
MaskRun(children, i) == (i + 1)..(NextMask(children, i + 1) - 1)

\* C9 (as claimed): when the scan of a sibling list is done, every mask node
\* has been emitted, the wrapper of each mask node holds exactly the
\* contiguous non-mask siblings after it up to the next mask node or the end
\* of the list, and no sibling before the first mask is in a wrapper.
C9_MaskRunGrouping ==
    pc = "done" =>
        LET children == tree[1].children
            masks    == { i \in 1..Len(children) : isMaskNode(children[i]) }
        IN  /\ \A i \in masks :
                  \E e \in Range(emitted) : e.path = <<i>> /\ e.wrapper = Null
            /\ \A i \in masks :
                  { e.path : e \in { x \in Range(emitted) : x.wrapper = Some(<<i>>) } }
                      = { <<m>> : m \in MaskRun(children, i) }
            /\ \A m \in 1..Len(children) :
                  (\A j \in 1..m : j \notin masks) =>
                      \A e \in Range(emitted) : e.path = <<m>> => e.wrapper = Null

----------------------------------------------------------------------------
(* Element emitter: the class list and the style attribute nodeToHtmlCss    *)
(* gives one node.  An inline declaration is a sequence of tokens whose     *)
(* first is the property name and whose second is the colon, as in          *)
(* <<"z-index", ": ", "1">>.  Only the declarations of size, position,      *)
(* stacking, box sizing and transform are modelled: the paint declarations  *)
(* (background, border, shadow, opacity, blend mode, overflow, colour)      *)
(* name none of these properties.                                           *)

\* s.indexOf(':') > 0, and the property before it
HasColon(s) == Len(s) >= 2 /\ s[2] = ": "
PropOf(s) == s[1]

\* Mutant of SeenSet: the first value of a property is kept.
SeenSetKeepFirst(seen, s) ==
    IF \E k \in 1..Len(seen) : PropOf(seen[k]) = PropOf(s)
    THEN seen
    ELSE Append(seen, s)

\* seen.set(prop, s): Map keeps the key where it was first inserted and
\* replaces its value
SeenSet(seen, s) ==
    IF \E k \in 1..Len(seen) : PropOf(seen[k]) = PropOf(s)
    THEN [k \in 1..Len(seen) |-> IF PropOf(seen[k]) = PropOf(s) THEN s ELSE seen[k]]
    ELSE Append(seen, s)

\* The loop over styles that fills the Map of buildInlineStyle and of
\* buildReactStyleAttr
RECURSIVE SeenAfter(_, _)
SeenAfter(seen, styles) ==
    IF Len(styles) = 0 THEN seen
    ELSE SeenAfter(IF HasColon(styles[1]) THEN SeenSet(seen, styles[1]) ELSE seen, Tail(styles))

\* style="a: 1; b: 2", or nothing for an empty list
buildInlineStyle(styles) ==
    IF Len(styles) = 0 THEN <<>>
    ELSE <<"style=\"">> \o Join(SeenAfter(<<>>, styles), <<"; ">>) \o <<"\"">>

\* prop.replace(/-([a-z])/g, upper case), on the property names that occur
cssPropToCamel(prop) ==
    CASE prop = "z-index" -> "zIndex"
      [] prop = "transform-origin" -> "transformOrigin"
      [] prop = "box-sizing" -> "boxSizing"
      [] OTHER -> prop

\* One entry `${camel}: '${value}'`; no modelled value holds a quote
ReactEntry(s) == <<cssPropToCamel(PropOf(s)), ": ", "'">> \o SubSeq(s, 3, Len(s)) \o <<"'">>

\*  style={{ a: '1', b: '2' }}, or nothing when no entry is left
buildReactStyleAttr(styles) ==
    LET seen == SeenAfter(<<>>, styles)
    IN  IF Len(styles) = 0 \/ Len(seen) = 0 THEN <<>>
        ELSE <<" style={{ ">> \o Join([k \in 1..Len(seen) |-> ReactEntry(seen[k])], <<", ">>)
                 \o <<" }}">>

getStyleAttr(styles, format) ==
    IF format = "react" THEN buildReactStyleAttr(styles) ELSE buildInlineStyle(styles)

\* Math.round(n) for n in thousandths
roundDim(n) == (n + 500) \div 1000

\* `${prop}: ${roundDim(v)}px`
DimPx(prop, v) == <<prop, ": ">> \o NatToStr(roundDim(v)) \o <<"px">>

C_flex1       == <<"f", "l", "e", "x", "-", "1">>
C_selfStretch == <<"s", "e", "l", "f", "-", "s", "t", "r", "e", "t", "c", "h">>

\* addClass of registerSizingUtilities
addClass(classes, cls) ==
    IF \E k \in 1..Len(classes) : classes[k] = cls THEN classes ELSE Append(classes, cls)

\* The classes of registerSizingUtilities.  parentLayoutMode is Null or the
\* mode of an auto-layout parent; a node without the layoutSizing fields has
\* NoSizing in their place.
SizingClasses(node, parentLayoutMode) ==
    LET inLayout == parentLayoutMode # Null
        isAbsolute == inLayout /\ node.layoutPositioning = "ABSOLUTE"
        mode == IF inLayout THEN parentLayoutMode[1] ELSE "NONE"
        c1 == IF inLayout /\ node.layoutGrow > 0 /\ ~isAbsolute THEN <<C_flex1>> ELSE <<>>
        c2 == IF inLayout /\ node.layoutAlign = "STRETCH" /\ ~isAbsolute
              THEN addClass(c1, C_selfStretch) ELSE c1
        c3 == IF inLayout /\ ~isAbsolute /\ node.layoutSizingHorizontal = "FILL"
              THEN (IF mode = "HORIZONTAL" THEN addClass(c2, C_flex1)
                    ELSE IF mode = "VERTICAL" THEN addClass(c2, C_selfStretch) ELSE c2)
              ELSE c2
    IN  IF inLayout /\ ~isAbsolute /\ node.layoutSizingVertical = "FILL"
        THEN (IF mode = "VERTICAL" THEN addClass(c3, C_flex1)
              ELSE IF mode = "HORIZONTAL" THEN addClass(c3, C_selfStretch) ELSE c3)
        ELSE c3

\* The dimensions of a node that carries layoutSizing fields
SizingStyles(node) ==
    (IF node.layoutSizingHorizontal = "FIXED" THEN <<DimPx("width", node.width)>> ELSE <<>>)
    \o (IF node.layoutSizingVertical = "FIXED" THEN <<DimPx("height", node.height)>> ELSE <<>>)

\* The declaration lines registerSizingUtilities registers with each class
SizingRequest(cls) ==
    [ cls |-> cls,
      lines |-> IF cls = C_flex1 THEN <<KwLine("flex", "1")>>
                ELSE <<KwLine("align-self", "stretch")>> ]

\* 'layoutSizingHorizontal' in node ? node.layoutSizingHorizontal : null
NoSizing == "null"
hasLayoutSizing(node) ==
    node.layoutSizingHorizontal # NoSizing \/ node.layoutSizingVertical # NoSizing

\* The else branches of the text, rectangle and frame parts: the dimensions
\* of a node without layoutSizing fields
LegacySizingStyles(node, parentLayoutMode) ==
    LET width == <<DimPx("width", node.width)>>
        height == <<DimPx("height", node.height)>>
        primaryFill == parentLayoutMode # Null /\ node.layoutGrow > 0
        counterFill == node.layoutAlign = "STRETCH"
    IN  IF node.type = "TEXT"
        THEN (IF node.textAutoResize = "NONE" THEN width \o height
              ELSE IF node.textAutoResize = "HEIGHT" THEN width ELSE <<>>)
        ELSE IF node.type = "RECTANGLE"
        THEN (IF primaryFill THEN <<>> ELSE width) \o (IF counterFill THEN <<>> ELSE height)
        ELSE IF node.type = "FRAME"
        THEN (IF node.layoutMode = "NONE" THEN width \o height
              ELSE (IF node.primaryAxisSizingMode = "FIXED" /\ ~primaryFill
                    THEN (IF node.layoutMode = "HORIZONTAL" THEN width ELSE height) ELSE <<>>)
                   \o (IF node.counterAxisSizingMode = "FIXED" /\ ~counterFill
                       THEN (IF node.layoutMode = "HORIZONTAL" THEN height ELSE width) ELSE <<>>))
        ELSE <<>>

registerSizingUtilities(node, parentLayoutMode, ctx) ==
    LET classes == SizingClasses(node, parentLayoutMode)
    IN  [ classes |-> classes,
          styles  |-> IF hasLayoutSizing(node) THEN SizingStyles(node)
                      ELSE LegacySizingStyles(node, parentLayoutMode),
          context |-> RegisterAll([k \in 1..Len(classes) |-> SizingRequest(classes[k])], ctx) ]

\* Math.round(v) for v in tenths: halves round up
RoundTenths(v) == (v + 5) \div 10

\* getFontWeightFromStyle: the first keyword the lower-cased style name
\* includes, on the style names of the modelled fonts
getFontWeightFromStyle(fontName) ==
    IF fontName = Null THEN Null
    ELSE CASE fontName[1].style = "Regular"   -> Some(400)
           [] fontName[1].style = "Semi Bold" -> Some(600)
           [] fontName[1].style = "Bold"      -> Some(700)
           [] OTHER                           -> Null

getTextAlignClass(align) ==
    CASE align = "LEFT"      -> Some(<<"t", "e", "x", "t", "-", "l", "e", "f", "t">>)
      [] align = "CENTER"    -> Some(<<"t", "e", "x", "t", "-", "c", "e", "n", "t", "e", "r">>)
      [] align = "RIGHT"     -> Some(<<"t", "e", "x", "t", "-", "r", "i", "g", "h", "t">>)
      [] align = "JUSTIFIED" -> Some(<<"t", "e", "x", "t", "-", "j", "u", "s", "t", "i", "f", "y">>)
      [] OTHER               -> Null

\* text.textAlignHorizontal.toLowerCase()
AlignKeyword(align) ==
    CASE align = "LEFT"      -> "left"
      [] align = "CENTER"    -> "center"
      [] align = "RIGHT"     -> "right"
      [] OTHER               -> "justified"

\* getTextCaseClass: Null for figma.mixed ("MIXED") and for ORIGINAL
getTextCaseClass(textCase) ==
    CASE textCase = "UPPER" -> Some(<<"u", "p", "p", "e", "r", "c", "a", "s", "e">>)
      [] textCase = "LOWER" -> Some(<<"l", "o", "w", "e", "r", "c", "a", "s", "e">>)
      [] textCase = "TITLE" -> Some(<<"c", "a", "p", "i", "t", "a", "l", "i", "z", "e">>)
      [] textCase \in {"SMALL_CAPS", "SMALL_CAPS_FORCED"} -> Some(<<"s", "m", "a", "l", "l", "-", "c", "a", "p", "s">>)
      [] OTHER -> Null

getTextDecorationClass(decoration) ==
    CASE decoration = "UNDERLINE"     -> Some(<<"u", "n", "d", "e", "r", "l", "i", "n", "e">>)
      [] decoration = "STRIKETHROUGH" -> Some(<<"l", "i", "n", "e", "-", "t", "h", "r", "o", "u", "g", "h">>)
      [] OTHER -> Null

\* `${value / 100}em` for a whole percentage given in tenths of a percent
EmText(v) == HundredthsToText(v \div 10) \o <<"em">>

\* The utility classes the text branch asks for, in push order, each with
\* its declaration lines.  fontSize, lineHeight, letterSpacing and fontName
\* are Null where the plugin API answers figma.mixed; numbers are in tenths.
TextUtilityRequests(text) ==
    LET fontSize == IF text.fontSize # Null THEN RoundTenths(text.fontSize[1]) ELSE 0
        sizePart ==
            IF fontSize # 0
            THEN <<[cls |-> <<"t", "e", "x", "t", "-">> \o NatToStr(fontSize),
                    lines |-> << <<"  ", "font-size", ": ">> \o NatToStr(fontSize) \o <<"px;">> >>]>>
            ELSE <<>>
        fontWeight == getFontWeightFromStyle(text.fontName)
        weightPart ==
            IF fontWeight # Null
            THEN <<[cls |-> <<"f", "o", "n", "t", "-">> \o NatToStr(fontWeight[1]),
                    lines |-> << <<"  ", "font-weight", ": ">> \o NatToStr(fontWeight[1]) \o <<";">> >>]>>
            ELSE <<>>
        leadingPart ==
            IF text.lineHeight # Null /\ text.lineHeight[1].unit # "AUTO"
            THEN LET value == RoundTenths(text.lineHeight[1].value)
                 IN  <<[cls |-> <<"l", "e", "a", "d", "i", "n", "g", "-">> \o formatNegativeClassValue(value * 10),
                        lines |-> << <<"  ", "line-height", ": ">> \o TenthsToText(value * 10)
                                     \o <<IF text.lineHeight[1].unit = "PERCENT" THEN "%" ELSE "px", ";">> >>]>>
            ELSE <<>>
        trackingPart ==
            IF text.letterSpacing # Null
            THEN LET value == text.letterSpacing[1].value
                 IN  <<[cls |-> <<"t", "r", "a", "c", "k", "i", "n", "g", "-">> \o formatNegativeClassValue(RoundTenths(value) * 10),
                        lines |-> << <<"  ", "letter-spacing", ": ">>
                                     \o (IF text.letterSpacing[1].unit = "PERCENT" THEN EmText(value)
                                         ELSE TenthsToText(RoundTenths(value) * 10) \o <<"px">>)
                                     \o <<";">> >>]>>
            ELSE <<>>
        familyName == IF text.fontName # Null THEN sanitizeName(text.fontName[1].family) ELSE <<>>
        familyPart ==
            IF familyName # <<>>
            THEN <<[cls |-> <<"f", "o", "n", "t", "f", "a", "m", "-">> \o familyName,
                    lines |-> << <<"  ", "font-family", ": ", "\"">> \o text.fontName[1].family
                                 \o <<"\"", ";">> >>]>>
            ELSE <<>>
        alignClass == getTextAlignClass(text.textAlignHorizontal)
        alignPart ==
            IF alignClass # Null
            THEN <<[cls |-> alignClass[1],
                    lines |-> <<KwLine("text-align", AlignKeyword(text.textAlignHorizontal))>>]>>
            ELSE <<>>
        textCaseVal == getTextCaseClass(text.textCase)
        casePart ==
            IF textCaseVal # Null
            THEN <<[cls |-> <<"t", "t", "-">> \o textCaseVal[1],
                    lines |-> << <<"  ", "text-transform", ": ">> \o textCaseVal[1] \o <<";">> >>]>>
            ELSE <<>>
        textDeco == getTextDecorationClass(text.textDecoration)
        decoPart ==
            IF textDeco # Null
            THEN <<[cls |-> <<"d", "e", "c", "o", "r", "a", "t", "i", "o", "n", "-">> \o textDeco[1],
                    lines |-> << <<"  ", "text-decoration", ": ">> \o textDeco[1] \o <<";">> >>]>>
            ELSE <<>>
    IN  sizePart \o weightPart \o leadingPart \o trackingPart \o familyPart
            \o alignPart \o casePart \o decoPart

\* text.replace(/[&<>"']/g, table)
RECURSIVE escapeHtml(_)
escapeHtml(text) ==
    IF text = <<>> THEN <<>>
    ELSE (CASE Head(text) = "&"  -> <<"&", "a", "m", "p", ";">>
            [] Head(text) = "<"  -> <<"&", "l", "t", ";">>
            [] Head(text) = ">"  -> <<"&", "g", "t", ";">>
            [] Head(text) = "\"" -> <<"&", "q", "u", "o", "t", ";">>
            [] Head(text) = "'"  -> <<"&", "#", "3", "9", ";">>
            [] OTHER -> <<Head(text)>>) \o escapeHtml(Tail(text))

\* text.replace(/[&<>{}]/g, table)
RECURSIVE escapeJsxText(_)
escapeJsxText(text) ==
    IF text = <<>> THEN <<>>
    ELSE (CASE Head(text) = "&" -> <<"&", "a", "m", "p", ";">>
            [] Head(text) = "<" -> <<"&", "l", "t", ";">>
            [] Head(text) = ">" -> <<"&", "g", "t", ";">>
            [] Head(text) = "{" -> <<"&", "#", "1", "2", "3", ";">>
            [] Head(text) = "}" -> <<"&", "#", "1", "2", "5", ";">>
            [] OTHER -> <<Head(text)>>) \o escapeJsxText(Tail(text))

isAbsoluteChild(node, parentFrame) ==
    parentFrame # Null /\ node.layoutPositioning = "ABSOLUTE"

\* getPositionStylesRelativeToContainer with the default two decimals
getPositionStylesRelativeToContainer(node, container, zIndex) ==
    LET head == << <<"position", ": ", "absolute">>, <<"z-index", ": ">> \o NatToStr(zIndex) >>
    IN  IF container.isMask
        THEN head \o <<PosPx("left", roundPx(node.x - container.x)),
                       PosPx("top", roundPx(node.y - container.y))>>
        ELSE IF container.absoluteBoundingBox # Null /\ node.absoluteBoundingBox # Null
        THEN head \o <<PosPx("left", roundPx(node.absoluteBoundingBox[1].x
                                              - container.absoluteBoundingBox[1].x)),
                       PosPx("top", roundPx(node.absoluteBoundingBox[1].y
                                             - container.absoluteBoundingBox[1].y))>>
        ELSE head \o <<PosPx("left", roundPx(node.x)), PosPx("top", roundPx(node.y))>>

\* `position: relative` and `z-index: ${z}` of a child in the flow of an
\* auto-layout frame; `forward` is what the branch uses when the frame does
\* not reverse its stacking (1 in the frame, text, rectangle and vector
\* branches, idx + 1 in the group branch)
FlowChildStyles(node, parentFrame, forward) ==
    << <<"position", ": ", "relative">>,
       <<"z-index", ": ">> \o NatToStr(IF parentFrame.itemReverseZIndex
                                     THEN parentFrame.childCount - 1 - node.index
                                     ELSE forward) >>

\* The position declarations of the frame, text and rectangle branches
PositionStyles(e) ==
    IF e.positionContainer # Null
    THEN getPositionStylesRelativeToContainer(e.node, e.positionContainer[1], e.flattenedZIndex)
    ELSE IF e.parentGroup # Null
    THEN getGroupChildPositionStyles(e.node, e.parentGroup[1])
    ELSE getAbsolutePositionStyles(e.node, e.parentFrame)
         \o (IF ~isAbsoluteChild(e.node, e.parentFrame) /\ e.parentFrame # Null
             THEN FlowChildStyles(e.node, e.parentFrame[1], 1)
             ELSE <<>>)

\* The position declarations of the group branch
GroupPositionStyles(e) ==
    IF e.positionContainer # Null
    THEN getPositionStylesRelativeToContainer(e.node, e.positionContainer[1], e.flattenedZIndex)
    ELSE IF e.parentGroup # Null
    THEN getGroupChildPositionStyles(e.node, e.parentGroup[1])
    ELSE IF e.parentFrame # Null
    THEN (IF e.node.layoutPositioning = "ABSOLUTE"
          THEN getAbsolutePositionStyles(e.node, e.parentFrame)
          ELSE FlowChildStyles(e.node, e.parentFrame[1], e.node.index + 1))
    ELSE << <<"position", ": ", "relative">> >>

\* 'transform-origin: 0 0', `transform: rotate(${cssRotationDeg(rotation)}deg)`
RotationStyles(rotation) ==
    << <<"transform-origin", ": ", "0 0">>,
       <<"transform", ": ", "rotate(">> \o HundredthsToText(cssRotationDeg(rotation)) \o <<"deg)">> >>

\* inlineStyles.every((style) => !style.startsWith('transform:')), negated
HasTransform(styles) == \E k \in 1..Len(styles) : PropOf(styles[k]) = "transform"

\* classes.filter with the seen set: the first occurrence of each class stays
RECURSIVE DedupeClasses(_, _)
DedupeClasses(classes, seen) ==
    IF Len(classes) = 0 THEN <<>>
    ELSE IF classes[1] \in seen THEN DedupeClasses(Tail(classes), seen)
    ELSE <<classes[1]>> \o DedupeClasses(Tail(classes), seen \cup {classes[1]})

\* getClassAttr: classes.filter(Boolean).join(' ').trim(), as class or className
getClassAttr(classes, format) ==
    LET kept   == SelectSeq(classes, LAMBDA c : c # <<>>)
        joined == Trim(Join(kept, <<" ">>))
    IN  IF joined = <<>> THEN <<>>
        ELSE (IF format = "react" THEN <<"c", "l", "a", "s", "s", "N", "a", "m", "e", "=", "\"">> ELSE <<"c", "l", "a", "s", "s", "=", "\"">>) \o joined \o <<"\"", " ">>

C_group == <<"g", "r", "o", "u", "p">>
C_frame == <<"f", "r", "a", "m", "e">>

\* Mutant of holdsAbsolute: only a frame all of whose children are ABSOLUTE.
holdsAbsoluteAll(frame) ==
    /\ Len(frame.children) > 0
    /\ \A k \in 1..Len(frame.children) : frame.children[k].layoutPositioning = "ABSOLUTE"

\* The condition under which the frame branch pushes 'position: relative'
holdsAbsolute(frame) ==
    IF frame.layoutMode = "NONE" THEN Len(frame.children) > 0
    ELSE \E k \in 1..Len(frame.children) : frame.children[k].layoutPositioning = "ABSOLUTE"

\* ('0' + x.toString(16)).slice(-2), upper-cased
HexDigits == <<"0", "1", "2", "3", "4", "5", "6", "7", "8", "9", "A", "B", "C", "D", "E", "F">>
Hex(x) == <<HexDigits[(x \div 16) + 1], HexDigits[(x % 16) + 1]>>

\* toCssColor for channels in thousandths and alpha in hundredths: hex when
\* opaque, rgba() when not
toCssColor(r, g, b, a) ==
    LET R == (r * 255 + 500) \div 1000
        G == (g * 255 + 500) \div 1000
        B == (b * 255 + 500) \div 1000
    IN  IF a >= 100 THEN <<"#">> \o Hex(R) \o Hex(G) \o Hex(B)
        ELSE <<"rgba(">> \o NatToStr(R) \o <<", ">> \o NatToStr(G) \o <<", ">> \o NatToStr(B)
             \o <<", ">> \o HundredthsToText(a) \o <<")">>

\* node.strokes.find((p) => p.type === 'SOLID' && p.visible !== false)
RECURSIVE FindSolid(_)
FindSolid(paints) ==
    IF Len(paints) = 0 THEN Null
    ELSE IF paints[1].type = "SOLID" /\ paints[1].visible THEN Some(paints[1])
    ELSE FindSolid(Tail(paints))

\* The value of the box-shadow an INSIDE stroke is drawn with
InsetStroke(w, color) == <<"inset 0 0 0 ">> \o NatToStr(w) \o <<"px ">> \o color

\* getStrokeStyles for a node whose strokeWeight is a number
getStrokeStyles(node) ==
    IF "strokes" \notin DOMAIN node THEN <<>>
    ELSE IF FindSolid(node.strokes) = Null THEN <<>>
    ELSE LET stroke == FindSolid(node.strokes)[1]
             w == roundDim(node.strokeWeight)
             color == toCssColor(stroke.color.r, stroke.color.g, stroke.color.b, stroke.opacity)
         IN  IF node.strokeAlign = "INSIDE"
             THEN << <<"box-shadow", ": ">> \o InsetStroke(w, color) >>
             ELSE IF node.strokeAlign = "OUTSIDE"
             THEN << <<"outline", ": ">> \o NatToStr(w) \o <<"px solid ">> \o color,
                     <<"outline-offset", ": ", "0">> >>
             ELSE << <<"border", ": ">> \o NatToStr(w) \o <<"px solid ">> \o color >>

\* One entry of `shadows`: offsets, radius, spread and colour of a drop or
\* inner shadow
ShadowText(e) ==
    (IF e.type = "INNER_SHADOW" THEN <<"inset ">> ELSE <<>>)
    \o NatToStr(roundDim(e.offset.x)) \o <<"px ">> \o NatToStr(roundDim(e.offset.y)) \o <<"px ">>
    \o NatToStr(roundDim(e.radius)) \o <<"px ">> \o NatToStr(roundDim(e.spread)) \o <<"px ">>
    \o toCssColor(e.color.r, e.color.g, e.color.b, e.color.a)

\* shadows.join(', ') over the visible drop and inner shadows
RECURSIVE Shadows(_)
Shadows(effects) ==
    IF Len(effects) = 0 THEN <<>>
    ELSE LET rest == Shadows(Tail(effects))
         IN  IF effects[1].visible /\ effects[1].type \in {"DROP_SHADOW", "INNER_SHADOW"}
             THEN ShadowText(effects[1]) \o (IF Len(rest) = 0 THEN <<>> ELSE <<", ">> \o rest)
             ELSE rest

\* getEffectsStyles for effects without a layer blur
getEffectsStyles(node) ==
    IF "effects" \notin DOMAIN node THEN <<>>
    ELSE IF Len(Shadows(node.effects)) = 0 THEN <<>>
    ELSE << <<"box-shadow", ": ">> \o Shadows(node.effects) >>

\* The frame branch of nodeToHtmlCss for an auto-layout (HORIZONTAL or
\* VERTICAL) or layout-less frame, up to the opening tag
FrameElement(e, ctx) ==
    LET frame  == e.node
        flex   == IF frame.layoutMode # "NONE" THEN registerFlexUtilities(frame, ctx)
                  ELSE [ret |-> <<>>, context |-> ctx]
        sizing == registerSizingUtilities(frame, e.parentLayoutMode, flex.context)
        classes0 == flex.ret \o sizing.classes
        position == PositionStyles(e)
        hasPositioningTransform ==
            \/ e.positionContainer # Null
            \/ e.parentGroup # Null
            \/ Len(getAbsolutePositionStyles(frame, e.parentFrame)) > 0
        classes1 == IF Len(classes0) = 0 THEN <<frame.baseName>> ELSE classes0
        ctx1 == IF Len(classes0) = 0
                THEN LET used == [sizing.context EXCEPT !.usedBaseClasses = @ \cup {frame.baseName}]
                     IN  IF frame.baseName = C_frame
                         THEN RegisterUtilityClass(C_frame, <<KwLine("display", "block")>>, used)
                         ELSE used
                ELSE sizing.context
        styles == sizing.styles \o position
                  \o getStrokeStyles(frame) \o getEffectsStyles(frame)
                  \o (IF frame.layoutMode # "NONE" THEN << <<"box-sizing", ": ", "border-box">> >> ELSE <<>>)
                  \o (IF isMeaningfulRotation(frame.rotation) /\ ~hasPositioningTransform
                      THEN RotationStyles(frame.rotation) ELSE <<>>)
                  \o (IF holdsAbsolute(frame) THEN << <<"position", ": ", "relative">> >> ELSE <<>>)
        deduped == DedupeClasses(classes1, {})
        hasFlexDir == \E k \in 1..Len(deduped) : deduped[k] \in {C_flexRow, C_flexCol}
        finalClasses == IF hasFlexDir /\ ~(\E k \in 1..Len(deduped) : deduped[k] = C_flex)
                        THEN <<C_flex>> \o deduped ELSE deduped
    IN  [ tag |-> "div", classes |-> finalClasses, styles |-> styles,
          classAttr |-> getClassAttr(finalClasses, e.format),
          styleAttr |-> getStyleAttr(styles, e.format),
          content |-> <<>>, context |-> ctx1 ]

\* The group branch of nodeToHtmlCss, up to the opening tag
GroupElement(e, ctx) ==
    LET group  == e.node
        styles == <<DimPx("width", group.width), DimPx("height", group.height)>>
                  \o GroupPositionStyles(e)
                  \o (IF isMeaningfulRotation(group.rotation)
                      THEN RotationStyles(group.rotation) ELSE <<>>)
                  \o << <<"overflow", ": ", "visible">> >>
        used   == [ctx EXCEPT !.usedBaseClasses = @ \cup {group.baseName}]
        finalClasses == DedupeClasses(<<C_group, group.baseName>>, {})
    IN  [ tag |-> "div", classes |-> finalClasses, styles |-> styles,
          classAttr |-> getClassAttr(finalClasses, e.format),
          styleAttr |-> getStyleAttr(styles, e.format),
          content |-> <<>>,
          context |-> RegisterUtilityClass(C_group, <<KwLine("display", "block")>>, used) ]

\* The text branch of nodeToHtmlCss for a text of one colour
TextElement(e, ctx) ==
    LET text     == e.node
        requests == TextUtilityRequests(text)
        fonts    == IF text.fontName # Null /\ sanitizeName(text.fontName[1].family) # <<>>
                    THEN [ctx EXCEPT !.fontFamiliesUsed = @ \cup {text.fontName[1].family}]
                    ELSE ctx
        sizing   == registerSizingUtilities(text, e.parentLayoutMode, RegisterAll(requests, fonts))
        classes0 == ClassesOf(requests) \o sizing.classes
        styles0  == sizing.styles \o PositionStyles(e)
        styles   == styles0 \o (IF isMeaningfulRotation(text.rotation) /\ ~HasTransform(styles0)
                                THEN RotationStyles(text.rotation) ELSE <<>>)
        classes  == IF Len(classes0) = 0 THEN <<C_text>> ELSE classes0
    IN  [ tag |-> "p", classes |-> classes, styles |-> styles,
          classAttr |-> getClassAttr(classes, e.format),
          styleAttr |-> getStyleAttr(styles, e.format),
          content |-> IF e.format = "react" THEN escapeJsxText(text.characters)
                      ELSE escapeHtml(text.characters),
          context |-> IF Len(classes0) = 0 THEN RegisterUtilityClass(C_text, <<>>, sizing.context)
                      ELSE sizing.context ]

\* The rectangle branch of nodeToHtmlCss for a rectangle without layer blur
RectangleElement(e, ctx) ==
    LET rect       == e.node
        styleLines == IF rect.cornerRadius # Null
                      THEN <<RadiusLine(roundDim(rect.cornerRadius[1]))>> ELSE <<>>
        named      == GetClassForStyle(rect.baseName, styleLines, ctx)
        sizing     == registerSizingUtilities(rect, e.parentLayoutMode, named.context)
        classes    == <<named.ret>> \o sizing.classes
        styles0    == sizing.styles \o PositionStyles(e)
                      \o getStrokeStyles(rect) \o getEffectsStyles(rect)
        styles     == styles0 \o (IF isMeaningfulRotation(rect.rotation) /\ ~HasTransform(styles0)
                                  THEN RotationStyles(rect.rotation) ELSE <<>>)
    IN  [ tag |-> "div", classes |-> classes, styles |-> styles,
          classAttr |-> getClassAttr(classes, e.format),
          styleAttr |-> getStyleAttr(styles, e.format),
          content |-> <<>>, context |-> sizing.context ]

----------------------------------------------------------------------------
(* Inputs of the element emitter *)

\* How many children the parent of the emitted node has
ChildCount == 3

\* layoutGrow, layoutAlign and the layoutSizing pair of a node: fixed,
\* hugging, filling the primary axis of its parent and filling the counter axis
SizingCases(parentLayoutMode) ==
    { [layoutGrow |-> 0, layoutAlign |-> "INHERIT",
       layoutSizingHorizontal |-> "FIXED", layoutSizingVertical |-> "FIXED"],
      [layoutGrow |-> 0, layoutAlign |-> "INHERIT",
       layoutSizingHorizontal |-> "HUG", layoutSizingVertical |-> "HUG"] }
    \cup
    (IF parentLayoutMode = Null THEN {}
     ELSE { [layoutGrow |-> 1, layoutAlign |-> "INHERIT",
             layoutSizingHorizontal |-> IF parentLayoutMode[1] = "HORIZONTAL" THEN "FILL" ELSE "FIXED",
             layoutSizingVertical |-> IF parentLayoutMode[1] = "HORIZONTAL" THEN "FIXED" ELSE "FILL"],
            [layoutGrow |-> 0, layoutAlign |-> "STRETCH",
             layoutSizingHorizontal |-> IF parentLayoutMode[1] = "HORIZONTAL" THEN "FIXED" ELSE "FILL",
             layoutSizingVertical |-> IF parentLayoutMode[1] = "HORIZONTAL" THEN "FILL" ELSE "FIXED"] })

\* The children of an emitted frame, as far as the branch reads them
ChildLists ==
    { <<>>,
      <<[layoutPositioning |-> "AUTO"]>>,
      <<[layoutPositioning |-> "AUTO"], [layoutPositioning |-> "ABSOLUTE"],
        [layoutPositioning |-> "AUTO"]>> }

\* A frame without auto-layout: its layout fields are the API's defaults
PlainFrame == Frame("NONE", "NO_WRAP", "AUTO", Null, 0, "MIN", "MIN", 0, 0, 0, 0)

\* Every layout with one child in the flow; one auto-layout frame and the
\* layout-less frame with each list of children
FrameCases ==
    { [type |-> "FRAME", baseName |-> <<"H", "e", "r", "o">>,
       children |-> <<[layoutPositioning |-> "AUTO"]>>] @@ frame : frame \in Frames }
    \cup
    { [type |-> "FRAME", baseName |-> <<"H", "e", "r", "o">>, children |-> children] @@ frame :
        children \in ChildLists,
        frame \in {Frame("HORIZONTAL", "NO_WRAP", "AUTO", Null, 80, "MIN", "MIN", 160, 160, 160, 160),
                   PlainFrame} }

GroupCases == { [type |-> "GROUP", baseName |-> <<"I", "c", "o", "n", "s">>,
                 children |-> <<[layoutPositioning |-> "AUTO"]>>] }

FontAb == [family |-> <<"A", "b">>, style |-> "Regular"]

\* Texts: "Hi" at 14px in a regular face; a bold, underlined, upper-case
\* heading at 13.6px with a 20px line and 1.2px tracking; a text whose size,
\* face, line height and tracking are mixed; an italic in a face whose name
\* sanitises to nothing
TextCases ==
    { [type |-> "TEXT", characters |-> <<"H", "i">>, fontSize |-> Some(140),
       fontName |-> Some(FontAb), lineHeight |-> Some([unit |-> "AUTO", value |-> 0]),
       letterSpacing |-> Some([unit |-> "PERCENT", value |-> 0]),
       textAlignHorizontal |-> "LEFT", textCase |-> "ORIGINAL", textDecoration |-> "NONE"],
      [type |-> "TEXT", characters |-> <<"a", "<", "b", "&", "{">>, fontSize |-> Some(136),
       fontName |-> Some([family |-> <<"A", " ", "b">>, style |-> "Bold"]),
       lineHeight |-> Some([unit |-> "PIXELS", value |-> 200]),
       letterSpacing |-> Some([unit |-> "PIXELS", value |-> 12]),
       textAlignHorizontal |-> "CENTER", textCase |-> "UPPER", textDecoration |-> "UNDERLINE"],
      [type |-> "TEXT", characters |-> <<"H", "i">>, fontSize |-> Null,
       fontName |-> Null, lineHeight |-> Null, letterSpacing |-> Null,
       textAlignHorizontal |-> "RIGHT", textCase |-> "MIXED", textDecoration |-> "MIXED"],
      [type |-> "TEXT", characters |-> <<"H", "i">>, fontSize |-> Some(140),
       fontName |-> Some([family |-> <<"!">>, style |-> "Italic"]),
       lineHeight |-> Some([unit |-> "PERCENT", value |-> 1500]), letterSpacing |-> Null,
       textAlignHorizontal |-> "JUSTIFIED", textCase |-> "TITLE", textDecoration |-> "STRIKETHROUGH"] }

RectangleCases ==
    { [type |-> "RECTANGLE", baseName |-> <<"C", "a", "r", "d">>, cornerRadius |-> r] :
        r \in {Null, Some(4000)} }

NodeCases == FrameCases \cup GroupCases \cup TextCases \cup RectangleCases

\* Where a node is emitted: as the root, as a child of an auto-layout frame
\* (in the flow or absolute), as a child of a group or of a layout-less
\* frame, and placed relative to the mask that precedes it
Placements ==
    { [kind |-> "root", parentLayoutMode |-> Null, index |-> 0, layoutPositioning |-> "AUTO",
       reverse |-> FALSE, childCount |-> 0] }
    \cup
    { [kind |-> "layout", parentLayoutMode |-> Some("HORIZONTAL"), index |-> i,
       layoutPositioning |-> p, reverse |-> r, childCount |-> ChildCount] :
        i \in 0..(ChildCount - 1), p \in {"AUTO", "ABSOLUTE"}, r \in BOOLEAN }
    \cup
    { [kind |-> "layout", parentLayoutMode |-> Some("VERTICAL"), index |-> 1,
       layoutPositioning |-> "AUTO", reverse |-> FALSE, childCount |-> ChildCount] }
    \cup
    { [kind |-> k, parentLayoutMode |-> Null, index |-> 1, layoutPositioning |-> "AUTO",
       reverse |-> FALSE, childCount |-> ChildCount] : k \in {"group", "mask"} }

\* Positions and constraints of the emitted node (thousandths)
ElementGeometries ==
    { [x |-> 75400, horizontal |-> c[1], vertical |-> c[2], rotation |-> rot] :
        c \in { <<"MIN", "MIN">>, <<"CENTER", "CENTER">> }, rot \in Rotations }

\* The parent frame of a layout child
LayoutParent(place) ==
    PosParent("FRAME", [x |-> 0, y |-> 0], TRUE)
        @@ [ layoutMode |-> place.parentLayoutMode[1], itemReverseZIndex |-> place.reverse,
             childCount |-> place.childCount ]

\* The mask a masked sibling is placed against
MaskContainer == [ isMask |-> TRUE, x |-> 10000, y |-> 5000,
                   absoluteBoundingBox |-> Some([x |-> 310000, y |-> 205000]) ]

Element(kindCase, sizing, place, g, format) ==
    [ node |-> [ index |-> place.index ]
               @@ PosNode(g.x, 40000, g.horizontal, g.vertical, g.rotation,
                          place.layoutPositioning, [x |-> 0, y |-> 0], TRUE)
               @@ sizing @@ kindCase,
      parentLayoutMode   |-> place.parentLayoutMode,
      parentFrame        |-> IF place.kind = "layout" THEN Some(LayoutParent(place)) ELSE Null,
      parentGroup        |-> IF place.kind = "group"
                             THEN Some(PosParent("GROUP", [x |-> 0, y |-> 0], TRUE)) ELSE Null,
      positionContainer  |-> IF place.kind = "mask" THEN Some(MaskContainer) ELSE Null,
      flattenedZIndex    |-> IF place.kind = "mask" THEN place.index + 1 ELSE 0,
      format             |-> format ]

Elements ==
    UNION { { Element(kindCase, sizing, place, g, format) :
                kindCase \in NodeCases, g \in ElementGeometries, format \in {"html", "react"},
                sizing \in SizingCases(place.parentLayoutMode) } :
            place \in Placements }

----------------------------------------------------------------------------
(* SpecElement: one node goes through its branch of nodeToHtmlCss *)

InitElement ==
    /\ pc = "emitting"
    /\ el \in { Some(e) : e \in Elements }
    /\ elOut = Null
    /\ context = NewContext /\ calls = <<>> /\ css = <<>>
    /\ IdleOrder /\ IdleSanitize /\ IdlePos /\ IdleMask /\ IdleRun /\ IdleWalk

\* The element is kept with the context its branch left behind
Emit(out) ==
    /\ elOut' = Some(out)
    /\ context' = elOut'[1].context
    /\ pc' = "emitted"
    /\ UNCHANGED <<el, calls, css, orderVars, sanitizeVars, posVars, maskVars, runVars, walkVars>>

EmitFrame ==
    /\ pc = "emitting" /\ el[1].node.type = "FRAME"
    /\ Emit(FrameElement(el[1], context))

EmitGroup ==
    /\ pc = "emitting" /\ el[1].node.type = "GROUP"
    /\ Emit(GroupElement(el[1], context))

EmitText ==
    /\ pc = "emitting" /\ el[1].node.type = "TEXT"
    /\ Emit(TextElement(el[1], context))

EmitRectangle ==
    /\ pc = "emitting" /\ el[1].node.type = "RECTANGLE"
    /\ Emit(RectangleElement(el[1], context))

NextElement ==
    \/ EmitFrame
    \/ EmitGroup
    \/ EmitText
    \/ EmitRectangle

SpecElement == InitElement /\ [][NextElement]_vars

----------------------------------------------------------------------------
(* Claims about the emitted element *)

HasPrefix(s, p) == Len(s) >= Len(p) /\ SubSeq(s, 1, Len(p)) = p

Emitted == pc = "emitted" /\ el # Null /\ elOut # Null

\* The emitted element is an auto-layout frame
EmittedFlexFrame ==
    /\ Emitted
    /\ el[1].node.type = "FRAME"
    /\ el[1].node.layoutMode \in {"HORIZONTAL", "VERTICAL"}

\* The sizing classes end the class list of a frame; what precedes them
FlexClassesOf(classes) ==
    SelectSeq(classes, LAMBDA c : c \notin {C_flex1, C_selfStretch})

\* gap-<N> unless the primary alignment is SPACE_BETWEEN, then p-<N> when
\* the four paddings are equal and else one class per non-zero side
GapAndPadding(frame) ==
    LET sideClass(prefix, v) == IF v = 0 THEN <<>> ELSE <<prefix \o formatNegativeClassValue(v)>>
    IN  (IF frame.primaryAxisAlignItems = "SPACE_BETWEEN" THEN <<>>
         ELSE <<<<"g", "a", "p", "-">> \o formatNegativeClassValue(frame.itemSpacing)>>)
        \o (IF {frame.paddingTop, frame.paddingRight, frame.paddingBottom, frame.paddingLeft}
                = {frame.paddingTop}
            THEN <<<<"p", "-">> \o formatNegativeClassValue(frame.paddingTop)>>
            ELSE sideClass(<<"p", "t", "-">>, frame.paddingTop) \o sideClass(<<"p", "r", "-">>, frame.paddingRight)
                 \o sideClass(<<"p", "b", "-">>, frame.paddingBottom) \o sideClass(<<"p", "l", "-">>, frame.paddingLeft))

WrapFamily(c) ==
    \/ c \in { <<"f", "l", "e", "x", "-", "w", "r", "a", "p">>, <<"c", "o", "n", "t", "e", "n", "t", "-", "b", "e", "t", "w", "e", "e", "n">> }
    \/ HasPrefix(c, <<"r", "o", "w", "-", "g", "a", "p", "-">>)
    \/ HasPrefix(c, <<"c", "o", "l", "u", "m", "n", "-", "g", "a", "p", "-">>)

\* The class lists of the example: the one the code gives a frame whose two
\* alignments are MIN, and the one the specification prints
ExampleClasses ==
    << <<"f", "l", "e", "x">>, <<"f", "l", "e", "x", "-", "r", "o", "w">>, <<"g", "a", "p", "-", "8">>, <<"p", "-", "1", "6">>, <<"j", "u", "s", "t", "i", "f", "y", "-", "s", "t", "a", "r", "t">>, <<"i", "t", "e", "m", "s", "-", "s", "t", "a", "r", "t">> >>
ExampleClassesAsClaimed ==
    << <<"f", "l", "e", "x">>, <<"f", "l", "e", "x", "-", "r", "o", "w">>, <<"g", "a", "p", "-", "8">>, <<"p", "-", "1", "6">>, <<"j", "u", "s", "t", "i", "f", "y", "-", "s", "t", "a", "r", "t">>, <<"i", "t", "e", "m", "s", "-", "s", "t", "r", "e", "t", "c", "h">> >>

\* The frame of the example: root, HORIZONTAL, no wrap, itemSpacing 8,
\* padding 16 on every side
ExampleFrame ==
    /\ EmittedFlexFrame
    /\ el[1].parentLayoutMode = Null /\ el[1].parentFrame = Null
    /\ el[1].parentGroup = Null /\ el[1].positionContainer = Null
    /\ el[1].node.layoutMode = "HORIZONTAL"
    /\ el[1].node.layoutWrap = "NO_WRAP"
    /\ el[1].node.itemSpacing = 80
    /\ \A side \in {"paddingTop", "paddingRight", "paddingBottom", "paddingLeft"} :
          el[1].node[side] = 160

\* The text of the example: "Hi" at font size 14
ExampleText ==
    /\ Emitted
    /\ el[1].node.type = "TEXT"
    /\ el[1].node.fontSize = Some(140)
    /\ el[1].node.characters = <<"H", "i">>

\* C11: the class list of an auto-layout frame is flex, then flex-row or
\* flex-col, then the wrap classes (none unless the frame wraps), then gap-N
\* unless the primary alignment is SPACE_BETWEEN, then p-N for four equal
\* paddings or the pt/pr/pb/pl classes of the non-zero sides, then one
\* justify-* and one items-* class (start, end, center, between / baseline
\* after the alignment), followed only by the sizing classes flex-1 and
\* self-stretch.  The root frame of the example whose alignments are MIN gets
\* exactly flex flex-row gap-8 p-16 justify-start items-start, and the text
\* "Hi" of size 14 becomes a p whose first class is text-14 and whose
\* content is Hi.
C11_FlexClassList ==
    /\ EmittedFlexFrame =>
         LET frame  == el[1].node
             body   == FlexClassesOf(elOut[1].classes)
             n      == Len(body)
             tail   == GapAndPadding(frame)
             middle == SubSeq(body, 3, n - 2)
             wraps  == SubSeq(middle, 1, Len(middle) - Len(tail))
         IN  /\ n >= 4
             /\ body[1] = <<"f", "l", "e", "x">>
             /\ body[2] = IF frame.layoutMode = "HORIZONTAL" THEN <<"f", "l", "e", "x", "-", "r", "o", "w">> ELSE <<"f", "l", "e", "x", "-", "c", "o", "l">>
             /\ Len(middle) >= Len(tail)
             /\ SubSeq(middle, Len(middle) - Len(tail) + 1, Len(middle)) = tail
             /\ \A k \in 1..Len(wraps) : WrapFamily(wraps[k])
             /\ (Len(wraps) > 0) = (frame.layoutWrap = "WRAP")
             /\ Len(wraps) > 0 => wraps[1] = <<"f", "l", "e", "x", "-", "w", "r", "a", "p">>
             /\ body[n - 1] = <<"j", "u", "s", "t", "i", "f", "y", "-">> \o
                   (CASE frame.primaryAxisAlignItems = "MAX" -> <<"e", "n", "d">>
                      [] frame.primaryAxisAlignItems = "CENTER" -> <<"c", "e", "n", "t", "e", "r">>
                      [] frame.primaryAxisAlignItems = "SPACE_BETWEEN" -> <<"b", "e", "t", "w", "e", "e", "n">>
                      [] OTHER -> <<"s", "t", "a", "r", "t">>)
             /\ body[n] = <<"i", "t", "e", "m", "s", "-">> \o
                   (CASE frame.counterAxisAlignItems = "MIN" -> <<"s", "t", "a", "r", "t">>
                      [] frame.counterAxisAlignItems = "MAX" -> <<"e", "n", "d">>
                      [] frame.counterAxisAlignItems = "CENTER" -> <<"c", "e", "n", "t", "e", "r">>
                      [] frame.counterAxisAlignItems = "BASELINE" -> <<"b", "a", "s", "e", "l", "i", "n", "e">>
                      [] OTHER -> <<"s", "t", "r", "e", "t", "c", "h">>)
             /\ elOut[1].classes = body \o SelectSeq(elOut[1].classes,
                                                     LAMBDA c : c \in {C_flex1, C_selfStretch})
    /\ (ExampleFrame /\ el[1].node.primaryAxisAlignItems = "MIN"
                     /\ el[1].node.counterAxisAlignItems = "MIN")
          => elOut[1].classes = ExampleClasses
    /\ ExampleText =>
          /\ elOut[1].tag = "p"
          /\ elOut[1].classes[1] = <<"t", "e", "x", "t", "-", "1", "4">>
          /\ elOut[1].content = <<"H", "i">>

\* C11 witness: the root frame of the example has been emitted with the six
\* classes flex flex-row gap-8 p-16 justify-start items-start
C11_Witness ==
    /\ ExampleFrame
    /\ elOut[1].classes = ExampleClasses
    /\ elOut[1].classAttr = <<"c", "l", "a", "s", "s", "=", "\"", "f", "l", "e", "x", " ", "f", "l", "e", "x", "-", "r", "o", "w", " ", "g", "a", "p", "-", "8", " ", "p", "-", "1", "6", " ", "j", "u", "s", "t", "i", "f", "y", "-", "s", "t", "a", "r", "t", " ", "i", "t", "e", "m", "s", "-", "s", "t", "a", "r", "t", "\"", " ">>

\* C11 as the specification words its example: the root frame of the example
\* gets exactly flex flex-row gap-8 p-16 justify-start items-stretch, and the
\* text is a p that has the class text-14
C11_ExampleAsClaimed ==
    /\ ExampleFrame => elOut[1].classes = ExampleClassesAsClaimed
    /\ ExampleText => /\ elOut[1].tag = "p"
                      /\ \E k \in 1..Len(elOut[1].classes) :
                            elOut[1].classes[k] = <<"t", "e", "x", "t", "-", "1", "4">>
                      /\ elOut[1].content = <<"H", "i">>

----------------------------------------------------------------------------
(* Vector branch and document assembly.  An SVG text is a sequence of       *)
(* tokens in which the token after an id=" or url(# marker is an id and     *)
(* the token after a width=", height=" or viewBox=" marker is its value.    *)

\* What node.exportAsync({ format: 'SVG' }) answers for the modelled vector
ExportedSvg ==
    << "<svg width=\"", "20", "\" height=\"", "20", "\" viewBox=\"", "0 0 20 20", "\">",
       "<path fill=\"url(#", "paint0", ")\"/>",
       "<linearGradient id=\"", "paint0", "\"/>", "</svg>" >>

IdMarkers == { "<path fill=\"url(#", "<linearGradient id=\"" }

\* Mutant of makeSvgIdsUnique: the ids stay as exported
KeepSvgIds(svg, suffix) == svg

\* makeSvgIdsUnique: every id and every reference to it gets `_${suffix}`
RECURSIVE makeSvgIdsUnique(_, _)
makeSvgIdsUnique(svg, suffix) ==
    IF Len(svg) = 0 THEN <<>>
    ELSE IF svg[1] \in IdMarkers /\ Len(svg) >= 2
    THEN <<svg[1], svg[2], "_">> \o suffix \o makeSvgIdsUnique(SubSeq(svg, 3, Len(svg)), suffix)
    ELSE <<svg[1]>> \o makeSvgIdsUnique(Tail(svg), suffix)

\* svg.replace(/\b<attr>=["'][^"']*["']/i, `<attr>="${value}"`)
RECURSIVE ReplaceValue(_, _, _)
ReplaceValue(svg, marker, value) ==
    IF Len(svg) = 0 THEN <<>>
    ELSE IF svg[1] = marker /\ Len(svg) >= 2
    THEN <<marker>> \o value \o SubSeq(svg, 3, Len(svg))
    ELSE <<svg[1]>> \o ReplaceValue(Tail(svg), marker, value)

\* normalizeSvgToNodeSize for an SVG that has a viewBox and no circle
normalizeSvgToNodeSize(svg, width, height) ==
    LET w == NatToStr(roundDim(width))
        h == NatToStr(roundDim(height))
    IN  ReplaceValue(ReplaceValue(ReplaceValue(svg, "<svg width=\"", w), "\" height=\"", h),
                     "\" viewBox=\"", <<"0 0 ">> \o w \o <<" ">> \o h)

\* `<${tag} ${classAttr}${styleAttr}>`
OpenTag(out) == <<"<", out.tag, " ">> \o out.classAttr \o out.styleAttr \o <<">">>
CloseTag(out) == <<"</", out.tag, ">">>

\* The vector branch before the export: sizing classes and position
VectorBase(e, ctx) ==
    LET sizing == registerSizingUtilities(e.node, e.parentLayoutMode, ctx)
    IN  [ classes |-> sizing.classes, styles |-> sizing.styles \o PositionStyles(e),
          context |-> sizing.context ]

\* The vector branch after a successful export of an unrotated vector
VectorExported(e, base, ctx, svg) ==
    LET counted == [ctx EXCEPT !.svgIdCounter = @ + 1]
        svgText == normalizeSvgToNodeSize(
                       makeSvgIdsUnique(svg, <<"s">> \o NatToStr(counted.svgIdCounter)),
                       e.node.width, e.node.height)
    IN  [ tag |-> "div", classes |-> base.classes, styles |-> base.styles,
          classAttr |-> getClassAttr(base.classes, e.format),
          styleAttr |-> getStyleAttr(base.styles, e.format),
          content |-> NL \o svgText \o NL, context |-> counted ]

\* A catch that also counts the failed export in svgIdCounter
VectorPlaceholderCounted(e, base, ctx) ==
    LET styles == base.styles \o << <<"background", ": ", "#e5e7eb">> >>
    IN  [ tag |-> "div", classes |-> base.classes, styles |-> styles,
          classAttr |-> getClassAttr(base.classes, e.format),
          styleAttr |-> getStyleAttr(styles, e.format),
          content |-> <<>>, context |-> [ctx EXCEPT !.svgIdCounter = @ + 1] ]

\* The catch of the vector branch: a grey box of the node's size
VectorPlaceholder(e, base, ctx) ==
    LET sized  == \E k \in 1..Len(base.styles) : PropOf(base.styles[k]) \in {"width", "height"}
        styles == base.styles
                  \o (IF sized THEN <<>>
                      ELSE <<DimPx("width", e.node.width), DimPx("height", e.node.height)>>)
                  \o << <<"background", ": ", "#e5e7eb">> >>
    IN  [ tag |-> "div", classes |-> base.classes, styles |-> styles,
          classAttr |-> getClassAttr(base.classes, e.format),
          styleAttr |-> getStyleAttr(styles, e.format),
          content |-> <<>>, context |-> ctx ]

\* encodeURIComponent(f).replace(/%20/g, '+') for a family of letters and spaces
RECURSIVE EncodeFamily(_)
EncodeFamily(f) ==
    IF Len(f) = 0 THEN <<>>
    ELSE (IF f[1] = " " THEN <<"+">> ELSE <<f[1]>>) \o EncodeFamily(Tail(f))

\* The families of context.fontFamiliesUsed as the query of the fonts URL;
\* the modelled trees use at most one family
googleFonts(ctx) ==
    IF ctx.fontFamiliesUsed = {} THEN <<>>
    ELSE LET f == CHOOSE x \in ctx.fontFamiliesUsed : TRUE
         IN  <<"family=">> \o EncodeFamily(f) \o <<":wght@400;500;600;700">>

\* The css of exportSelection in either format
StylesheetOf(ctx, format) ==
    (IF format = "react" /\ googleFonts(ctx) # <<>>
     THEN <<"@import url('https://fonts.googleapis.com/css2?">> \o googleFonts(ctx)
          \o <<"&display=swap');">> \o NL \o NL
     ELSE <<>>)
    \o SerializeCss(ctx.styleEntries)

\* The html page or the jsx module exportSelection wraps the body in
DocumentOf(bodyContent, ctx, format) ==
    IF format = "react"
    THEN <<"import './styles.css';", "export default function ExportedComponent() {", "return (">>
         \o bodyContent \o <<");", "}">>
    ELSE <<"<!doctype html>", "<head>">>
         \o (IF googleFonts(ctx) # <<>>
             THEN <<"<link href=\"https://fonts.googleapis.com/css2?">> \o googleFonts(ctx)
                  \o <<"&display=swap\" rel=\"stylesheet\">">>
             ELSE <<>>)
         \o <<"<link rel=\"stylesheet\" href=\"styles.css\">", "</head>", "<body>">>
         \o bodyContent \o <<"</body>", "</html>">>

----------------------------------------------------------------------------
(* SpecRun: export requests from the UI.  figma.ui.onmessage starts one     *)
(* asynchronous run per 'export' message; a run is suspended at every       *)
(* await (loadAsync, each child of the root, exportAsync) and the runs in   *)
(* flight take their steps in any order.                                    *)

\* How many children the selected root has at most
MaxKids == 2

\* The requests the UI sends
RunIds == {1, 2}

\* The children of the root, by what the walk meets: a text, a rectangle, a
\* vector whose export succeeds or fails, a text of mixed fills whose
\* getStyledTextSegments throws, and a node on which a host call throws an
\* Error or a value that is not an Error
ChildKinds == { "TEXT", "RECTANGLE", "VECTOR", "VECTOR_FAILS", "TEXT_SEGMENTS_THROW",
                "THROWS_ERROR", "THROWS_VALUE" }

RECURSIVE KidLists(_)
KidLists(n) ==
    IF n = 0 THEN {<<>>}
    ELSE LET shorter == KidLists(n - 1)
         IN  shorter \cup { Append(s, k) : s \in { x \in shorter : Len(x) = n - 1 },
                                            k \in ChildKinds }

Roots ==
    { [type |-> "FRAME", layoutMode |-> "HORIZONTAL", children |-> kids] :
        kids \in KidLists(MaxKids) }
    \cup
    { [type |-> t, layoutMode |-> "NONE", children |-> <<"RECTANGLE">>] :
        t \in {"FRAME", "GROUP"} }
    \cup
    { [type |-> "TEXT", layoutMode |-> "NONE", children |-> <<>>] }

\* figma.currentPage.selection[0]: nothing, or the root
Documents == { [selection |-> Null] } \cup { [selection |-> Some(root)] : root \in Roots }

allowedTypes == {"FRAME", "GROUP", "TRANSFORM_GROUP", "COMPONENT", "INSTANCE"}

SelectionMessage == <<"Select a frame, component, instance, or group.">>
HostMessage == <<"in get_characters: The node with id \"1:2\" does not exist">>
GenericMessage == <<"Export failed.">>

FixedSizing == [layoutGrow |-> 0, layoutAlign |-> "INHERIT",
                layoutSizingHorizontal |-> "FIXED", layoutSizingVertical |-> "FIXED"]

Unrotated == [x |-> 0, horizontal |-> "MIN", vertical |-> "MIN", rotation |-> 0]

\* The selected root as nodeToHtmlCss(rootNode, context, null, null, null, ...) gets it
RootElement(root, format) ==
    Element(IF root.type = "GROUP"
            THEN [type |-> "GROUP", baseName |-> <<"I", "c", "o", "n", "s">>,
                  children |-> [k \in 1..Len(root.children) |-> [layoutPositioning |-> "AUTO"]]]
            ELSE [type |-> "FRAME", baseName |-> <<"H", "e", "r", "o">>,
                  children |-> [k \in 1..Len(root.children) |-> [layoutPositioning |-> "AUTO"]]]
                 @@ (IF root.layoutMode = "NONE" THEN PlainFrame
                     ELSE Frame("HORIZONTAL", "NO_WRAP", "AUTO", Null, 80, "MIN", "MIN",
                                160, 160, 160, 160)),
            FixedSizing,
            [kind |-> "root", parentLayoutMode |-> Null, index |-> 0,
             layoutPositioning |-> "AUTO", reverse |-> FALSE, childCount |-> 0],
            Unrotated, format)

\* The i-th child as runFrameChild or the group loop hands it on: with the
\* root as parentFrame when the root has auto-layout, as parentGroup otherwise
ChildElement(root, i, format) ==
    LET kind == root.children[i]
        inLayout == root.type # "GROUP" /\ root.layoutMode # "NONE"
    IN  Element(IF kind \in {"TEXT", "TEXT_SEGMENTS_THROW"}
                THEN [type |-> "TEXT", characters |-> <<"H", "i">>, fontSize |-> Some(140),
                      fontName |-> Some(FontAb),
                      lineHeight |-> Some([unit |-> "AUTO", value |-> 0]),
                      letterSpacing |-> Some([unit |-> "PERCENT", value |-> 0]),
                      textAlignHorizontal |-> "LEFT", textCase |-> "ORIGINAL",
                      textDecoration |-> "NONE"]
                ELSE IF kind = "RECTANGLE"
                THEN [type |-> "RECTANGLE", baseName |-> <<"C", "a", "r", "d">>, cornerRadius |-> Some(4000)]
                ELSE [type |-> "VECTOR"],
                FixedSizing,
                [kind |-> IF inLayout THEN "layout" ELSE "group",
                 parentLayoutMode |-> IF inLayout THEN Some(root.layoutMode) ELSE Null,
                 index |-> i - 1, layoutPositioning |-> "AUTO", reverse |-> FALSE,
                 childCount |-> Len(root.children)],
                Unrotated, format)

\* A registry kept at module level and handed from one run to the next
CarriedContext(rs) ==
    IF \E q \in DOMAIN rs : rs[q].pc = "posted"
    THEN rs[CHOOSE q \in DOMAIN rs : rs[q].pc = "posted"].context
    ELSE NewContext

\* A registry kept at module level that every run in flight writes to
SharedContext(rs, r) == rs[1].context

\* const context: ExportContext = { ... } of exportSelection
FreshContext(rs) == NewContext

\* The context a run hands to nodeToHtmlCss and its helpers: its own
RunContext(rs, r) == rs[r].context

\* What the catch of the message handler posts for a thrown value
ErrorPosted(r, thrown) ==
    [ type |-> "error", run |-> r, format |-> "",
      text |-> IF thrown.isError THEN thrown.message ELSE GenericMessage, css |-> <<>> ]

\* The branch of nodeToHtmlCss the root goes through
RootOut(e, ctx) ==
    IF e.node.type = "GROUP" THEN GroupElement(e, ctx) ELSE FrameElement(e, ctx)

\* exportSelection after the walk, and the export-result the handler posts
ResultPosted(r, run, root) ==
    [ type |-> "export-result", run |-> r, format |-> run.format,
      text |-> DocumentOf(run.html \o CloseTag(RootOut(RootElement(root, run.format), NewContext)),
                          run.context, run.format),
      css |-> StylesheetOf(run.context, run.format) ]

\* The run of one export message, suspended at loadAsync
Requested(format, after) ==
    [ format |-> format, after |-> after, pc |-> "loading", i |-> 0, context |-> NewContext,
      html |-> <<>>, pieces |-> <<>>, base |-> Null, raised |-> <<>> ]

\* html += `<tag ...>`: the root is open and the walk is at its first child
Opened(run, rootOut) ==
    [run EXCEPT !.pc = "walking", !.i = 1, !.context = rootOut.context,
                !.html = OpenTag(rootOut)]

\* nodeToHtmlCss on the root up to its first child, with the context ctx
RootOpened(run, root, ctx) == Opened(run, RootOut(RootElement(root, run.format), ctx))

\* The markup of one childless element
Piece(out) == OpenTag(out) \o out.content \o CloseTag(out)

\* html += childExport.html: the child's markup and the context it left;
\* `mark` names the exception caught on the way, if any
Absorb(run, out, mark) ==
    [run EXCEPT !.pc = "walking", !.base = Null,
                !.html = @ \o Piece(out),
                !.pieces = Append(@, Piece(out)),
                !.context = out.context,
                !.i = @ + 1,
                !.raised = IF mark = "" THEN @ ELSE Append(@, mark)]

\* The branch of nodeToHtmlCss a text or rectangle child goes through
ChildOut(e, ctx) ==
    IF e.node.type = "TEXT" THEN TextElement(e, ctx) ELSE RectangleElement(e, ctx)

\* One child that needs no export: its element is appended to the markup
ChildEmitted(run, root) ==
    Absorb(run, ChildOut(ChildElement(root, run.i, run.format), run.context),
           IF root.children[run.i] = "TEXT_SEGMENTS_THROW" THEN "segments" ELSE "")

\* The run waits for the export with the wrapper's classes and styles at hand
Suspended(run, base) ==
    [run EXCEPT !.pc = "exporting", !.context = base.context,
                !.base = Some([classes |-> base.classes, styles |-> base.styles])]

\* A vector up to `await node.exportAsync(...)`
ExportStarted(run, root) ==
    Suspended(run, VectorBase(ChildElement(root, run.i, run.format), run.context))

\* The try or the catch of the vector branch, as the export settled
SettledOut(e, kind, base, ctx) ==
    IF kind = "VECTOR" THEN VectorExported(e, base, ctx, ExportedSvg)
    ELSE VectorPlaceholder(e, base, ctx)

\* The export settles: the SVG is inlined, or the catch emits the placeholder
ExportSettled(run, root) ==
    Absorb(run,
           SettledOut(ChildElement(root, run.i, run.format), root.children[run.i],
                      run.base[1], run.context),
           IF root.children[run.i] = "VECTOR_FAILS" THEN "export" ELSE "")

InitRun ==
    /\ pc = "serving"
    /\ doc \in { Some(d) : d \in Documents }
    /\ runs = <<>>
    /\ posted = <<>>
    /\ context = NewContext /\ calls = <<>> /\ css = <<>>
    /\ IdleOrder /\ IdleSanitize /\ IdlePos /\ IdleMask /\ IdleElement /\ IdleWalk

RunUnchanged ==
    UNCHANGED <<pc, doc, registryVars, orderVars, sanitizeVars, posVars, maskVars, elementVars,
                walkVars>>

\* figma.ui.onmessage({ type: 'export', format }): the run starts and is
\* suspended at `await figma.currentPage.loadAsync()`
RequestExport ==
    \E format \in {"html", "react"} :
        /\ Len(runs) + 1 \in RunIds
        /\ runs' = Append(runs, Requested(format, Len(posted)))
        /\ UNCHANGED posted
        /\ RunUnchanged

\* exportSelection: no root of an allowed type is selected, the Error is
\* thrown and the handler posts its message
RejectSelection ==
    \E r \in DOMAIN runs :
        /\ runs[r].pc = "loading"
        /\ IF doc[1].selection = Null THEN TRUE
           ELSE doc[1].selection[1].type \notin allowedTypes
        /\ runs' = [runs EXCEPT ![r].pc = "failed", ![r].raised = Append(@, "selection")]
        /\ posted' = Append(posted, ErrorPosted(r, [isError |-> TRUE, message |-> SelectionMessage]))
        /\ RunUnchanged

\* exportSelection: the context is created and nodeToHtmlCss opens the root
OpenRoot ==
    \E r \in DOMAIN runs :
        /\ runs[r].pc = "loading"
        /\ IF doc[1].selection = Null THEN FALSE
           ELSE doc[1].selection[1].type \in allowedTypes
        /\ runs' = [runs EXCEPT ![r] = RootOpened(@, doc[1].selection[1], FreshContext(runs))]
        /\ UNCHANGED posted
        /\ RunUnchanged

\* The walk is at child i of the root
AtKid(r, kinds) ==
    /\ runs[r].pc = "walking"
    /\ runs[r].i <= Len(doc[1].selection[1].children)
    /\ doc[1].selection[1].children[runs[r].i] \in kinds

\* The run r as it reads its own state
OwnRun(r) == [runs[r] EXCEPT !.context = RunContext(runs, r)]

\* await runFrameChild(child, ...) for a text or a rectangle
VisitChild ==
    \E r \in DOMAIN runs :
        /\ AtKid(r, {"TEXT", "RECTANGLE", "TEXT_SEGMENTS_THROW"})
        /\ runs' = [runs EXCEPT ![r] = ChildEmitted(OwnRun(r), doc[1].selection[1])]
        /\ UNCHANGED posted
        /\ RunUnchanged

\* The vector branch reaches `await node.exportAsync({ format: 'SVG' })`
StartVectorExport ==
    \E r \in DOMAIN runs :
        /\ AtKid(r, {"VECTOR", "VECTOR_FAILS"})
        /\ runs' = [runs EXCEPT ![r] = ExportStarted(OwnRun(r), doc[1].selection[1])]
        /\ UNCHANGED posted
        /\ RunUnchanged

\* The export promise settles
VectorExportSettles ==
    \E r \in DOMAIN runs :
        /\ runs[r].pc = "exporting"
        /\ runs' = [runs EXCEPT ![r] = ExportSettled(OwnRun(r), doc[1].selection[1])]
        /\ UNCHANGED posted
        /\ RunUnchanged

\* A host call throws while the walk is at child i; nothing below the
\* message handler catches it
HostCallThrows ==
    \E r \in DOMAIN runs :
        /\ AtKid(r, {"THROWS_ERROR", "THROWS_VALUE"})
        /\ runs' = [runs EXCEPT ![r].pc = "failed", ![r].raised = Append(@, "host")]
        /\ posted' = Append(posted,
                            ErrorPosted(r, [isError |-> doc[1].selection[1].children[runs[r].i] = "THROWS_ERROR",
                                            message |-> HostMessage]))
        /\ RunUnchanged

\* The walk is over: exportSelection builds the artifacts, the handler posts them
PostResult ==
    \E r \in DOMAIN runs :
        /\ runs[r].pc = "walking"
        /\ runs[r].i > Len(doc[1].selection[1].children)
        /\ runs' = [runs EXCEPT ![r].pc = "posted",
                                ![r].context = [@ EXCEPT !.styleEntries = SortEntries(@)]]
        /\ posted' = Append(posted, ResultPosted(r, OwnRun(r), doc[1].selection[1]))
        /\ RunUnchanged

NextRun ==
    \/ RequestExport
    \/ RejectSelection
    \/ OpenRoot
    \/ VisitChild
    \/ StartVectorExport
    \/ VectorExportSettles
    \/ HostCallThrows
    \/ PostResult

SpecRun == InitRun /\ [][NextRun]_vars

----------------------------------------------------------------------------
(* Properties of the export runs                                           *)

Results == { m \in DOMAIN posted : posted[m].type = "export-result" }
Errors == { m \in DOMAIN posted : posted[m].type = "error" }
ResultsOf(r) == { m \in Results : posted[m].run = r }
ErrorsOf(r) == { m \in Errors : posted[m].run = r }
RootKids == IF doc = Null THEN <<>>
            ELSE IF doc[1].selection = Null THEN <<>> ELSE doc[1].selection[1].children
HasKid(kind) == \E i \in DOMAIN RootKids : RootKids[i] = kind

\* C12: two runs on the same node tree and format, the exports settling the
\* same way, post identical markup and identical CSS, and end with the same
\* registry, name counters, utility set and SVG id counter: a run starts
\* from the empty context whatever ran before it.
C12_Determinism ==
    /\ \A a, b \in Results :
           posted[a].format = posted[b].format
           => posted[a].text = posted[b].text /\ posted[a].css = posted[b].css
    /\ \A r, q \in DOMAIN runs :
           runs[r].pc = "posted" /\ runs[q].pc = "posted" /\ runs[r].format = runs[q].format
           => runs[r].context = runs[q].context

\* Two runs of the same format, the second requested after the first had
\* posted its result, on a frame with a text and an exported vector
C12_Witness ==
    /\ Len(runs) = 2
    /\ runs[1].format = runs[2].format
    /\ runs[2].after = 1
    /\ runs[1].pc = "posted" /\ runs[2].pc = "posted"
    /\ HasKid("VECTOR") /\ HasKid("TEXT")
    /\ runs[2].context.svgIdCounter = 1
    /\ Cardinality(Results) = 2


\* The walk of one run with no other run in flight, from child run.i on
RECURSIVE WalkAlone(_, _)
WalkAlone(run, root) ==
    IF run.pc = "failed" \/ run.i > Len(root.children) THEN run
    ELSE IF root.children[run.i] \in {"TEXT", "RECTANGLE", "TEXT_SEGMENTS_THROW"}
    THEN WalkAlone(ChildEmitted(run, root), root)
    ELSE IF root.children[run.i] \in {"VECTOR", "VECTOR_FAILS"}
    THEN WalkAlone(ExportSettled(ExportStarted(run, root), root), root)
    ELSE [run EXCEPT !.pc = "failed"]

\* exportSelection(format) on the root, run alone
ExportAlone(root, format) == WalkAlone(RootOpened(Requested(format, 0), root, NewContext), root)

\* The same tree with every vector export succeeding
Succeeding(root) ==
    [root EXCEPT !.children = [i \in DOMAIN @ |-> IF @[i] = "VECTOR_FAILS" THEN "VECTOR" ELSE @[i]]]

\* How many of the first i children are vectors that were exported
ExportedUpTo(root, i) == Cardinality({ k \in 1..i : root.children[k] = "VECTOR" })

\* Child i as an inlined SVG whose ids carry the suffix s<n>
VectorPiece(root, i, format, n) ==
    Piece(VectorExported(ChildElement(root, i, format),
                         VectorBase(ChildElement(root, i, format), NewContext),
                         [NewContext EXCEPT !.svgIdCounter = n - 1], ExportedSvg))

Contains(seq, token) == \E k \in DOMAIN seq : seq[k] = token

\* The runs in which a vector export has failed
FailedExports(r) == { k \in DOMAIN runs[r].raised : runs[r].raised[k] = "export" }

Unexpected(r) == { k \in DOMAIN runs[r].raised : runs[r].raised[k] \in {"host", "segments"} }

\* C14: an exception that is not a vector-export failure is caught once, by
\* the message handler, which posts one 'error' carrying the generic message
\* and no 'export-result' for that request.
C14_UnexpectedErrorGeneric ==
    \A r \in DOMAIN runs :
        Unexpected(r) # {} =>
            /\ runs[r].pc = "failed"
            /\ Cardinality(ErrorsOf(r)) = 1
            /\ \A m \in ErrorsOf(r) : posted[m].text = GenericMessage
            /\ ResultsOf(r) = {}


\* C15: an export request is answered with the selection error, posted
\* verbatim as an 'error' and with no 'export-result', when nothing is
\* selected, when the root is not a frame, and when the frame's layout mode
\* is NONE; only a frame with auto-layout is ever converted.
C15_SelectionRejected ==
    \A r \in DOMAIN runs :
        LET ineligible == IF doc[1].selection = Null THEN TRUE
                          ELSE \/ doc[1].selection[1].type # "FRAME"
                               \/ doc[1].selection[1].layoutMode = "NONE"
        IN  (ineligible /\ runs[r].pc # "loading") =>
                /\ runs[r].pc = "failed"
                /\ ResultsOf(r) = {}
                /\ Cardinality(ErrorsOf(r)) = 1
                /\ \A m \in ErrorsOf(r) : posted[m].text = SelectionMessage


\* C16: runs in flight at the same time do not interfere.  Whatever the
\* order of their steps, a run's SVG id counter counts its own exports only,
\* and a finished run has posted the artifacts, and holds the registry and
\* name counters, of the same request run alone.
C16_RunsIndependent ==
    \A r \in DOMAIN runs :
        /\ runs[r].pc \in {"walking", "exporting"} =>
               runs[r].context.svgIdCounter
                   = ExportedUpTo(doc[1].selection[1], Len(runs[r].pieces))
        /\ runs[r].pc = "posted" =>
               LET root  == doc[1].selection[1]
                   alone == ExportAlone(root, runs[r].format)
               IN  /\ \A m \in ResultsOf(r) : posted[m] = ResultPosted(r, alone, root)
                   /\ Cardinality(ResultsOf(r)) = 1
                   /\ runs[r].context.styleMap = alone.context.styleMap
                   /\ runs[r].context.nameCounts = alone.context.nameCounts
                   /\ runs[r].context.utilityClasses = alone.context.utilityClasses
                   /\ runs[r].context.svgIdCounter = alone.context.svgIdCounter

\* Two requests in flight over a frame with an exported vector: the second
\* was sent before the first had posted anything and overtook it
C16_Witness ==
    /\ Len(runs) = 2
    /\ runs[1].pc = "posted" /\ runs[2].pc = "posted"
    /\ runs[2].after = 0
    /\ HasKid("VECTOR")
    /\ Len(posted) = 2
    /\ posted[1].run = 2 /\ posted[2].run = 1
    /\ runs[1].format # runs[2].format

----------------------------------------------------------------------------
(* Properties of the emitted element's inline style                        *)

\* The pieces of a token list between the separator tokens
RECURSIVE SplitAt(_, _)
SplitAt(seq, sep) ==
    IF \E k \in DOMAIN seq : seq[k] = sep
    THEN LET k == CHOOSE j \in DOMAIN seq : seq[j] = sep /\ \A h \in 1..(j - 1) : seq[h] # sep
         IN  <<SubSeq(seq, 1, k - 1)>> \o SplitAt(SubSeq(seq, k + 1, Len(seq)), sep)
    ELSE <<seq>>

\* The declarations a browser or React reads from the emitted style
\* attribute: style="p: v; ..." or style={{ p: 'v', ... }}
AttrDecls(attr, format) ==
    IF Len(attr) = 0 THEN <<>>
    ELSE SplitAt(SubSeq(attr, 2, Len(attr) - 1), IF format = "react" THEN ", " ELSE "; ")

\* The value of the last declaration of prop in the element's list, as the
\* dialect writes it
LastValue(styles, prop, format) ==
    LET last == CHOOSE k \in DOMAIN styles :
                    /\ PropOf(styles[k]) = prop
                    /\ \A h \in DOMAIN styles : PropOf(styles[h]) = prop => h <= k
        value == SubSeq(styles[last], 3, Len(styles[last]))
    IN  IF format = "react" THEN <<"'">> \o value \o <<"'">> ELSE value

AttrName(prop, format) == IF format = "react" THEN cssPropToCamel(prop) ELSE prop

\* C17: in the style attribute of an emitted element, in the HTML and in
\* the component dialect, every property of the element's declaration list
\* appears exactly once and with the value of its last declaration.
C17_InlineStyleDedup ==
    Emitted =>
        LET styles == elOut[1].styles
            format == el[1].format
            decls  == AttrDecls(elOut[1].styleAttr, format)
        IN  /\ \A a, b \in DOMAIN decls : a # b => PropOf(decls[a]) # PropOf(decls[b])
            /\ \A k \in DOMAIN styles :
                   \E a \in DOMAIN decls :
                       /\ PropOf(decls[a]) = AttrName(PropOf(styles[k]), format)
                       /\ SubSeq(decls[a], 3, Len(decls[a]))
                              = LastValue(styles, PropOf(styles[k]), format)
            /\ \A a \in DOMAIN decls :
                   \E k \in DOMAIN styles : PropOf(decls[a]) = AttrName(PropOf(styles[k]), format)

\* An element, in either dialect, whose list declares a property twice with
\* two values
RepeatedProperty(format) ==
    /\ Emitted
    /\ el[1].format = format
    /\ \E a, b \in DOMAIN elOut[1].styles :
           /\ a < b
           /\ PropOf(elOut[1].styles[a]) = PropOf(elOut[1].styles[b])
           /\ elOut[1].styles[a] # elOut[1].styles[b]

C17_Witness == RepeatedProperty("react")


\* The emitted element is a normal-flow child of an auto-layout frame
EmittedFlowChild ==
    /\ Emitted
    /\ el[1].positionContainer = Null /\ el[1].parentGroup = Null
    /\ el[1].parentFrame # Null
    /\ ~isAbsoluteChild(el[1].node, el[1].parentFrame)

HasProp(styles, prop) == \E k \in DOMAIN styles : PropOf(styles[k]) = prop

\* C18: a normal-flow child of a layout frame, of any node variant, gets
\* z-index = sibling index + 1, or childCount - 1 - index when the frame
\* reverses its stacking order.
C18_FlowChildZIndex ==
    EmittedFlowChild =>
        /\ HasProp(elOut[1].styles, "z-index")
        /\ LastValue(elOut[1].styles, "z-index", "html")
               = NatToStr(IF el[1].parentFrame[1].itemReverseZIndex
                          THEN el[1].parentFrame[1].childCount - 1 - el[1].node.index
                          ELSE el[1].node.index + 1)


\* The emitted element is a frame or a group
EmittedContainer == Emitted /\ el[1].node.type \in {"FRAME", "GROUP"}

\* Child k of the emitted container as its loop hands it to nodeToHtmlCss:
\* with the container as parentFrame when it is an auto-layout frame, as
\* parentGroup when it is a group or a frame without layout
ContainerChild(e, k) ==
    LET asGroup == IF e.node.type = "GROUP" THEN TRUE ELSE e.node.layoutMode = "NONE"
    IN  Element([type |-> "RECTANGLE", baseName |-> <<"C", "a", "r", "d">>, cornerRadius |-> Null],
                FixedSizing,
                [kind |-> IF asGroup THEN "group" ELSE "layout",
                 parentLayoutMode |-> IF asGroup THEN Null ELSE Some(e.node.layoutMode),
                 index |-> k - 1, layoutPositioning |-> e.node.children[k].layoutPositioning,
                 reverse |-> FALSE, childCount |-> Len(e.node.children)],
                Unrotated, e.format)

\* Some direct child of the container is emitted with position: absolute
HasAbsoluteChild(e) ==
    \E k \in DOMAIN e.node.children :
        LET position == PositionStyles(ContainerChild(e, k))
        IN  \E j \in DOMAIN position : position[j] = <<"position", ": ", "absolute">>

\* The container is itself taken out of the flow of its parent
PlacedAbsolutely(e) ==
    \/ e.positionContainer # Null
    \/ e.parentGroup # Null
    \/ isAbsoluteChild(e.node, e.parentFrame)

FinalPosition == LastValue(elOut[1].styles, "position", "html")

\* C19: a container with a direct child that is positioned absolutely is a
\* positioned box.  A frame's final inline style holds position: relative,
\* whatever the frame's own placement and even when its other children are
\* in normal flow.  A group's holds position: relative when the group is the
\* root or a normal-flow child, and the group's own position: absolute, with
\* no position: relative, when the group is a child of a group, is placed
\* against a mask or is an ABSOLUTE child of a frame.
C19_ContainerPositioned ==
    (EmittedContainer /\ HasAbsoluteChild(el[1])) =>
        /\ HasProp(elOut[1].styles, "position")
        /\ Cardinality({ k \in DOMAIN AttrDecls(elOut[1].styleAttr, el[1].format) :
                           PropOf(AttrDecls(elOut[1].styleAttr, el[1].format)[k]) = "position" }) = 1
        /\ FinalPosition = IF el[1].node.type = "GROUP" /\ PlacedAbsolutely(el[1])
                           THEN <<"absolute">> ELSE <<"relative">>

\* An auto-layout frame, itself a child of a group, with one ABSOLUTE child
\* between two children in normal flow
C19_Witness ==
    /\ EmittedContainer
    /\ el[1].node.type = "FRAME" /\ el[1].node.layoutMode # "NONE"
    /\ el[1].parentGroup # Null
    /\ Len(el[1].node.children) = 3
    /\ \E k \in DOMAIN el[1].node.children : el[1].node.children[k].layoutPositioning = "AUTO"
    /\ HasAbsoluteChild(el[1])
    /\ FinalPosition = <<"relative">>

\* C19 as stated: every such container's final inline style holds
\* position: relative.
C19_AlwaysRelative ==
    (EmittedContainer /\ HasAbsoluteChild(el[1])) =>
        /\ HasProp(elOut[1].styles, "position")
        /\ FinalPosition = <<"relative">>


\* rotate(<-rotation>deg) as the transform list writes it
RotatePart(rotation) == <<"rotate(">> \o HundredthsToText(cssRotationDeg(rotation)) \o <<"deg)">>

IsSuffix(s, t) == Len(t) >= Len(s) /\ SubSeq(t, Len(t) - Len(s) + 1, Len(t)) = s

\* C20: a node of any variant, in any positioning context, whose rotation is
\* at least 0.01 degrees in absolute value ends with transform-origin: 0 0
\* and a transform whose last component is rotate(<-rotation>deg), the
\* translate components of its CENTER constraints still in front of it.
C20_RotationAppended ==
    (Emitted /\ isMeaningfulRotation(el[1].node.rotation)) =>
        LET styles == elOut[1].styles
        IN  /\ HasProp(styles, "transform-origin")
            /\ LastValue(styles, "transform-origin", "html") = <<"0 0">>
            /\ HasProp(styles, "transform")
            /\ IsSuffix(RotatePart(el[1].node.rotation), LastValue(styles, "transform", "html"))
            /\ \A k \in DOMAIN styles : \A j \in DOMAIN styles[k] :
                   (PropOf(styles[k]) = "transform" /\ styles[k][j] \in {"translateX", "translateY"})
                   => Contains(LastValue(styles, "transform", "html"), styles[k][j])

----------------------------------------------------------------------------
(* SpecWalk: the traversal.  nodeToHtmlCss calls itself for every child it  *)
(* visits and awaits the call; `stack` holds the calls in progress.  A      *)
(* layer is named by its path, the 1-based sibling indices from the root.   *)
(* `markup` lists what the calls append to the html: the opening and        *)
(* closing tag of a container, the element of a leaf, and the opening and   *)
(* closing tag of a mask wrapper; an element carries `ref`, the layer its   *)
(* position declarations are computed against.                              *)

\* How many children a container of the scene has at most
MaxWidth == 3

Layer(type, visible, isMask, layoutMode, children) ==
    [ type |-> type, visible |-> visible, isMask |-> isMask, layoutMode |-> layoutMode,
      children |-> children ]

\* The children a container can hold: a rectangle, a rectangle mask, a
\* vector, a vector mask (no clip-path is derived for it), a hidden group
\* with a vector inside, a group that holds a mask run, and a frame without
\* layout that holds a group
LayerKinds ==
    { Layer("RECTANGLE", TRUE, FALSE, "NONE", <<>>),
      Layer("RECTANGLE", TRUE, TRUE, "NONE", <<>>),
      Layer("VECTOR", TRUE, FALSE, "NONE", <<>>),
      Layer("VECTOR", TRUE, TRUE, "NONE", <<>>),
      Layer("GROUP", FALSE, FALSE, "NONE", <<Layer("VECTOR", TRUE, FALSE, "NONE", <<>>)>>),
      Layer("GROUP", TRUE, FALSE, "NONE",
            <<Layer("RECTANGLE", TRUE, TRUE, "NONE", <<>>), Layer("VECTOR", TRUE, FALSE, "NONE", <<>>)>>),
      Layer("FRAME", TRUE, FALSE, "NONE",
            <<Layer("GROUP", TRUE, FALSE, "NONE", <<Layer("RECTANGLE", TRUE, FALSE, "NONE", <<>>)>>)>>) }

RECURSIVE LayerLists(_)
LayerLists(n) ==
    IF n = 0 THEN {<<>>}
    ELSE LET shorter == LayerLists(n - 1)
         IN  shorter \cup { Append(l, c) : l \in { x \in shorter : Len(x) = n - 1 }, c \in LayerKinds }

\* The exported root: a frame without layout, an auto-layout frame or a group
Scenes ==
    { Layer(t[1], TRUE, FALSE, t[2], l) :
        t \in { <<"FRAME", "NONE">>, <<"FRAME", "HORIZONTAL">>, <<"GROUP", "NONE">> },
        l \in LayerLists(MaxWidth) \ {<<>>} }

RECURSIVE NodeAt(_, _)
NodeAt(node, path) ==
    IF Len(path) = 0 THEN node ELSE NodeAt(node.children[Head(path)], Tail(path))

\* One call nodeToHtmlCss(node, context, parentLayoutMode, parentFrame,
\* parentGroup, ..., positionContainer, flattenedZIndex) that has not run yet
Call(path, parentFrame, parentGroup, positionContainer, flattenedZIndex) ==
    [ path |-> path, list |-> path, flat |-> FALSE, at |-> "enter", i |-> 0, k |-> 0, m |-> 0,
      parentFrame |-> parentFrame, parentGroup |-> parentGroup,
      positionContainer |-> positionContainer, flattenedZIndex |-> flattenedZIndex ]

\* The inner loop of the frame branch over the children of a group it flattens
FlatLoop(call, group) ==
    [call EXCEPT !.list = group, !.flat = TRUE, !.at = "children", !.i = 1]

\* The layer the position declarations of a call are computed against
RefOf(call) ==
    IF call.positionContainer # Null THEN call.positionContainer
    ELSE IF call.parentGroup # Null THEN call.parentGroup
    ELSE call.parentFrame

Top == stack[Len(stack)]
Rest == SubSeq(stack, 1, Len(stack) - 1)
TopNode == NodeAt(scene[1], Top.path)
Siblings == NodeAt(scene[1], Top.list).children

\* Mutant of ChildParentGroup: the container passes on its own parent
ChildParentGroupOuter(call, owner) == call.parentGroup

\* childParentFrame / childParentGroup of the frame branch; the group branch
\* passes null and the group
ChildParentFrame(call, owner) ==
    IF owner.type = "FRAME" /\ owner.layoutMode # "NONE" THEN Some(call.path) ELSE Null
ChildParentGroup(call, owner) ==
    IF owner.type = "FRAME" /\ owner.layoutMode # "NONE" THEN Null ELSE Some(call.path)

\* The call for child c of the list the loop scans
ChildCall(call, owner, c, positionContainer, flattenedZIndex) ==
    Call(Append(call.list, c), ChildParentFrame(call, owner), ChildParentGroup(call, owner),
         positionContainer, flattenedZIndex)

\* Mutant of PlainCall: the list is visited from its end
PlainCallMirrored(call, owner, c) ==
    ChildCall(call, owner, Len(NodeAt(scene[1], call.list).children) + 1 - c, Null, 0)

\* runFrameChild(child, null, 0) in the frame loop, runFrameChild(gc, frame, j)
\* in the loop over a flattened group, no container in the group loop
PlainCall(call, owner, c) ==
    IF call.flat THEN ChildCall(call, owner, c, Some(call.path), c - 1)
    ELSE ChildCall(call, owner, c, Null, 0)

\* runFrameChild(children[m], mask, m - i - 1)
MaskedCall(call, owner) ==
    ChildCall(call, owner, call.m, Some(Append(call.list, call.i)), call.m - call.i - 1)

Tag(ev, call) == [ ev |-> ev, path |-> call.path, ref |-> RefOf(call) ]

InitWalk ==
    /\ pc = "walking"
    /\ scene \in { Some(s) : s \in Scenes }
    /\ stack = << Call(<<>>, Null, Null, Null, 0) >>
    /\ markup = <<>>
    /\ exported = <<>>
    /\ context = NewContext /\ calls = <<>> /\ css = <<>>
    /\ IdleOrder /\ IdleSanitize /\ IdlePos /\ IdleMask /\ IdleElement /\ IdleRun

WalkUnchanged ==
    UNCHANGED <<pc, scene, registryVars, orderVars, sanitizeVars, posVars, maskVars,
                elementVars, runVars>>

Entering == Len(stack) > 0 /\ Top.at = "enter"
Looping(at) == Len(stack) > 0 /\ Top.at = at

\* if (node.visible === false) return { html: '' }
SkipInvisible ==
    /\ Entering
    /\ ~TopNode.visible
    /\ stack' = Rest
    /\ UNCHANGED <<markup, exported>>
    /\ WalkUnchanged

\* The frame and group branches write the opening tag and start their loop
OpenContainer ==
    /\ Entering
    /\ TopNode.visible /\ TopNode.type \in {"FRAME", "GROUP"}
    /\ markup' = Append(markup, Tag("open", Top))
    /\ stack' = Append(Rest, [Top EXCEPT !.at = "children", !.i = 1])
    /\ UNCHANGED exported
    /\ WalkUnchanged

\* The rectangle branch writes its element
EmitLeaf ==
    /\ Entering
    /\ TopNode.visible /\ TopNode.type = "RECTANGLE"
    /\ markup' = Append(markup, Tag("box", Top))
    /\ stack' = Rest
    /\ UNCHANGED exported
    /\ WalkUnchanged

\* The vector branch reaches `await node.exportAsync({ format: 'SVG' })`
StartExport ==
    /\ Entering
    /\ TopNode.visible /\ TopNode.type = "VECTOR"
    /\ exported' = Append(exported, Top.path)
    /\ stack' = Append(Rest, [Top EXCEPT !.at = "exporting"])
    /\ UNCHANGED markup
    /\ WalkUnchanged

\* The export returns and the SVG is inlined
ExportReturns ==
    /\ Looping("exporting")
    /\ markup' = Append(markup, Tag("svg", Top))
    /\ stack' = Rest
    /\ UNCHANGED exported
    /\ WalkUnchanged

\* The export fails and the catch writes the placeholder
ExportFails ==
    /\ Looping("exporting")
    /\ markup' = Append(markup, Tag("placeholder", Top))
    /\ stack' = Rest
    /\ UNCHANGED exported
    /\ WalkUnchanged

\* The loop is at child i of its list
AtSibling == Looping("children") /\ Top.i <= Len(Siblings)

\* frame.layoutMode === 'NONE' && isGroup, in the loop of the frame branch
FlattensGroup ==
    /\ ~Top.flat
    /\ TopNode.type = "FRAME" /\ TopNode.layoutMode = "NONE"
    /\ Siblings[Top.i].type = "GROUP"

\* Frame loop: the children of a group in a frame without layout are
\* scanned in the group's place, then i++
FlattenGroup ==
    /\ AtSibling /\ FlattensGroup
    /\ stack' = Rest \o << [Top EXCEPT !.i = @ + 1], FlatLoop(Top, Append(Top.list, Top.i)) >>
    /\ UNCHANGED <<markup, exported>>
    /\ WalkUnchanged

\* A mask: k is found and the mask itself is visited
VisitMask ==
    /\ AtSibling /\ ~FlattensGroup
    /\ isMaskNode(Siblings[Top.i])
    /\ stack' = Rest \o << [Top EXCEPT !.at = "afterMask", !.k = NextMask(Siblings, Top.i + 1)],
                           PlainCall(Top, TopNode, Top.i) >>
    /\ UNCHANGED <<markup, exported>>
    /\ WalkUnchanged

\* Any other child is visited, then i++
VisitChildLayer ==
    /\ AtSibling /\ ~FlattensGroup
    /\ ~isMaskNode(Siblings[Top.i])
    /\ stack' = Rest \o << [Top EXCEPT !.i = @ + 1], PlainCall(Top, TopNode, Top.i) >>
    /\ UNCHANGED <<markup, exported>>
    /\ WalkUnchanged

\* if (clipPath && maskedCount > 0): the wrapper is opened
OpenWrapper ==
    /\ Looping("afterMask")
    /\ getClipPathFromMaskNode(Siblings[Top.i]) # Null /\ Top.k - Top.i - 1 > 0
    /\ markup' = Append(markup, [ ev |-> "wrapOpen", path |-> Append(Top.list, Top.i),
                                  ref |-> Some(Top.path) ])
    /\ stack' = Append(Rest, [Top EXCEPT !.at = "masked", !.m = Top.i + 1])
    /\ UNCHANGED exported
    /\ WalkUnchanged

\* No wrapper: i = k
SkipRun ==
    /\ Looping("afterMask")
    /\ ~(getClipPathFromMaskNode(Siblings[Top.i]) # Null /\ Top.k - Top.i - 1 > 0)
    /\ stack' = Append(Rest, [Top EXCEPT !.at = "children", !.i = Top.k])
    /\ UNCHANGED <<markup, exported>>
    /\ WalkUnchanged

\* for (m = i + 1; m < k; m++): a masked sibling is visited against the mask
VisitMasked ==
    /\ Looping("masked")
    /\ Top.m < Top.k
    /\ stack' = Rest \o << [Top EXCEPT !.m = @ + 1], MaskedCall(Top, TopNode) >>
    /\ UNCHANGED <<markup, exported>>
    /\ WalkUnchanged

\* The wrapper is closed; i = k
CloseWrapper ==
    /\ Looping("masked")
    /\ Top.m >= Top.k
    /\ markup' = Append(markup, [ ev |-> "wrapClose", path |-> Append(Top.list, Top.i),
                                  ref |-> Some(Top.path) ])
    /\ stack' = Append(Rest, [Top EXCEPT !.at = "children", !.i = Top.k])
    /\ UNCHANGED exported
    /\ WalkUnchanged

\* The loop over a flattened group ends
EndFlatLoop ==
    /\ Looping("children") /\ Top.i > Len(Siblings)
    /\ Top.flat
    /\ stack' = Rest
    /\ UNCHANGED <<markup, exported>>
    /\ WalkUnchanged

\* The loop of a container ends: the closing tag is written and the call returns
CloseContainer ==
    /\ Looping("children") /\ Top.i > Len(Siblings)
    /\ ~Top.flat
    /\ markup' = Append(markup, Tag("close", Top))
    /\ stack' = Rest
    /\ UNCHANGED exported
    /\ WalkUnchanged

NextWalk ==
    \/ SkipInvisible
    \/ OpenContainer
    \/ EmitLeaf
    \/ StartExport
    \/ ExportReturns
    \/ ExportFails
    \/ FlattenGroup
    \/ VisitMask
    \/ VisitChildLayer
    \/ OpenWrapper
    \/ SkipRun
    \/ VisitMasked
    \/ CloseWrapper
    \/ EndFlatLoop
    \/ CloseContainer

SpecWalk == InitWalk /\ [][NextWalk]_vars

\* Every step that is enabled for ever is taken: the host resumes the walk
\* after each await, and every export call returns or fails
SpecWalkFair == SpecWalk /\ WF_vars(NextWalk)

----------------------------------------------------------------------------
(* What the finished walk wrote, read back from `markup`.                   *)

RECURSIVE Paths(_)
Paths(node) ==
    {<<>>} \cup UNION { { <<c>> \o q : q \in Paths(node.children[c]) } : c \in 1..Len(node.children) }

ScenePaths == Paths(scene[1])
ParentPath(path) == SubSeq(path, 1, Len(path) - 1)
Finished == scene # Null /\ stack = <<>>

\* The events that are elements of layers (not wrappers, not closing tags)
IsElement(e) == e.ev \in {"open", "box", "svg", "placeholder"}
ElementsOf(path) == { n \in 1..Len(markup) : IsElement(markup[n]) /\ markup[n].path = path }

\* The tags opened and not yet closed after the first n events, the innermost last
RECURSIVE OpenBoxes(_)
OpenBoxes(n) ==
    IF n = 0 THEN <<>>
    ELSE LET e == markup[n]
             before == OpenBoxes(n - 1)
         IN  IF e.ev \in {"open", "wrapOpen"} THEN Append(before, [ev |-> e.ev, path |-> e.path])
             ELSE IF e.ev \in {"close", "wrapClose"} THEN SubSeq(before, 1, Len(before) - 1)
             ELSE before

\* Event n lies between the opening and the closing tag of the box of `path`
InBox(n, path) ==
    \E d \in 1..Len(OpenBoxes(n - 1)) : OpenBoxes(n - 1)[d] = [ev |-> "open", path |-> path]

\* Every layer above `path` is visible
RECURSIVE AncestorsVisible(_)
AncestorsVisible(path) ==
    \/ Len(path) = 0
    \/ NodeAt(scene[1], ParentPath(path)).visible /\ AncestorsVisible(ParentPath(path))

VisibleGroups ==
    { p \in ScenePaths : NodeAt(scene[1], p).type = "GROUP" /\ NodeAt(scene[1], p).visible
                         /\ AncestorsVisible(p) }

\* A sibling before the layer at p is a mask: the layer belongs to a mask run
AfterMask(p) ==
    /\ Len(p) > 0
    /\ \E c \in 1..(p[Len(p)] - 1) : isMaskNode(NodeAt(scene[1], Append(ParentPath(p), c)))

\* A group that the loop of a frame without auto-layout meets itself: a
\* direct child of such a frame, outside every mask run
InPlainFrame(p) ==
    /\ Len(p) > 0
    /\ NodeAt(scene[1], ParentPath(p)).type = "FRAME"
    /\ NodeAt(scene[1], ParentPath(p)).layoutMode = "NONE"
    /\ ~AfterMask(p)

\* The elements of the children of the group at p
ChildElements(p) ==
    { n \in 1..Len(markup) : IsElement(markup[n]) /\ Len(markup[n].path) > 0
                             /\ ParentPath(markup[n].path) = p }

\* Element n is positioned against `box` or against a mask among the children of p
PositionedIn(n, p, box) ==
    \/ markup[n].ref = Some(box)
    \/ /\ markup[n].ref # Null
       /\ Len(markup[n].ref[1]) > 0
       /\ ParentPath(markup[n].ref[1]) = p
       /\ isMaskNode(NodeAt(scene[1], markup[n].ref[1]))

ShownInScene(path) == NodeAt(scene[1], path).visible /\ AncestorsVisible(path)

\* C22: an invisible node is a terminal of the walk: it contributes no
\* markup, and none of its descendants is visited, emitted or exported,
\* whatever container holds it.
C22_InvisibleTerminal ==
    scene # Null =>
        /\ \A d \in 1..Len(stack) : AncestorsVisible(stack[d].path)
        /\ \A n \in 1..Len(markup) : ShownInScene(markup[n].path)
        /\ \A n \in 1..Len(exported) : ShownInScene(exported[n])

----------------------------------------------------------------------------
(* SpecSizing: registerSizingUtilities on its own, over nodes whose legacy  *)
(* fields (layoutGrow, layoutAlign) and layoutSizing fields are independent *)
(* of each other, as the function reads them.                               *)

SizingModes == {NoSizing, "FIXED", "HUG", "FILL"}

SizedNodes ==
    { [ type |-> t, width |-> 120000, height |-> 40000,
        layoutSizingHorizontal |-> h, layoutSizingVertical |-> v,
        layoutGrow |-> g, layoutAlign |-> a, layoutPositioning |-> p,
        textAutoResize |-> "HEIGHT", layoutMode |-> "HORIZONTAL",
        primaryAxisSizingMode |-> "FIXED", counterAxisSizingMode |-> "AUTO" ] :
        t \in {"TEXT", "RECTANGLE", "FRAME"}, h \in SizingModes, v \in SizingModes,
        g \in {0, 1}, a \in {"INHERIT", "STRETCH"}, p \in {"AUTO", "ABSOLUTE"} }

ParentLayoutModes == {Null, Some("HORIZONTAL"), Some("VERTICAL")}

InitSizing ==
    /\ pc = "sizing"
    /\ el \in { Some([node |-> n, parentLayoutMode |-> m]) : n \in SizedNodes, m \in ParentLayoutModes }
    /\ elOut = Null
    /\ context = NewContext /\ calls = <<>> /\ css = <<>>
    /\ IdleOrder /\ IdleSanitize /\ IdlePos /\ IdleMask /\ IdleRun /\ IdleWalk

\* const sizing = registerSizingUtilities(node, parentLayoutMode, context)
RegisterSizing ==
    /\ pc = "sizing"
    /\ elOut' = Some(registerSizingUtilities(el[1].node, el[1].parentLayoutMode, context))
    /\ context' = elOut'[1].context
    /\ pc' = "sized"
    /\ UNCHANGED <<el, calls, css, orderVars, sanitizeVars, posVars, maskVars, runVars, walkVars>>

NextSizing == RegisterSizing

SpecSizing == InitSizing /\ [][NextSizing]_vars

Sized == pc = "sized"
HasClass(cls) == \E k \in 1..Len(elOut[1].classes) : elOut[1].classes[k] = cls
HasStyle(decl) == \E k \in 1..Len(elOut[1].styles) : elOut[1].styles[k] = decl

\* The sized node is a child in the flow of an auto-layout parent and carries
\* explicit sizing
ExplicitInFlow ==
    /\ Sized
    /\ el[1].parentLayoutMode # Null
    /\ el[1].node.layoutPositioning # "ABSOLUTE"
    /\ hasLayoutSizing(el[1].node)

\* The sizing of the node along the primary / the counter axis of its parent
PrimarySizing ==
    IF el[1].parentLayoutMode[1] = "HORIZONTAL" THEN el[1].node.layoutSizingHorizontal
    ELSE el[1].node.layoutSizingVertical
CounterSizing ==
    IF el[1].parentLayoutMode[1] = "HORIZONTAL" THEN el[1].node.layoutSizingVertical
    ELSE el[1].node.layoutSizingHorizontal

\* C23: when a node carries explicit sizing, flex-1 and self-stretch are
\* decided by it alone (FILL on the parent's primary axis gives flex-1, FILL
\* on the counter axis self-stretch, FIXED a pixel dimension); layoutGrow and
\* layoutAlign are consulted only when explicit sizing is absent.
C23_ExplicitSizingDecides ==
    ExplicitInFlow =>
        /\ HasClass(C_flex1) <=> PrimarySizing = "FILL"
        /\ HasClass(C_selfStretch) <=> CounterSizing = "FILL"
        /\ el[1].node.layoutSizingHorizontal = "FIXED"
              => HasStyle(DimPx("width", el[1].node.width))
        /\ el[1].node.layoutSizingVertical = "FIXED"
              => HasStyle(DimPx("height", el[1].node.height))

----------------------------------------------------------------------------
(* Claims about the ids of inlined vectors *)

\* The first token at or after k that closes an attribute value
RECURSIVE ValueEnd(_, _)
ValueEnd(piece, k) ==
    IF k > Len(piece) \/ piece[k] \in {"\"/>", ")\"/>"} THEN k ELSE ValueEnd(piece, k + 1)

\* The ids an element's markup defines: the values of its id attributes
IdsOf(piece) ==
    { SubSeq(piece, k + 1, ValueEnd(piece, k + 1) - 1) :
        k \in { n \in DOMAIN piece : piece[n] = "<linearGradient id=\"" } }

\* The children of a run whose markup holds an inlined SVG
Inlined(run) == { i \in DOMAIN run.pieces : Contains(run.pieces[i], "</svg>") }

\* C24: every vector inlined in a run carries an id suffix no other inlined
\* vector of the run has: the counter of the run's context is the number of
\* vectors inlined so far, the ids of the n-th of them end in _s<n>, and no
\* id of one inlined vector is an id of another.
C24_SvgIdsUnique ==
    \A r \in DOMAIN runs :
        /\ runs[r].context.svgIdCounter = Cardinality(Inlined(runs[r]))
        /\ \A i \in Inlined(runs[r]) :
               /\ IdsOf(runs[r].pieces[i]) # {}
               /\ \A id \in IdsOf(runs[r].pieces[i]) :
                      IsSuffix(<<"_", "s">> \o NatToStr(Cardinality({ k \in Inlined(runs[r]) : k <= i })), id)
               /\ \A j \in Inlined(runs[r]) \ {i} :
                      IdsOf(runs[r].pieces[i]) \cap IdsOf(runs[r].pieces[j]) = {}

\* A posted run with two inlined vectors
C24_Witness ==
    \E r \in DOMAIN runs :
        /\ runs[r].pc = "posted"
        /\ Cardinality(Inlined(runs[r])) >= 2

----------------------------------------------------------------------------
(* Claims about the order of the walk *)

\* Document order (depth first, left to right): a layer comes before its
\* descendants and before everything under its later siblings
RECURSIVE Before(_, _)
Before(p, q) ==
    IF Len(p) = 0 THEN Len(q) > 0
    ELSE IF Len(q) = 0 THEN FALSE
    ELSE IF Head(p) # Head(q) THEN Head(p) < Head(q)
    ELSE Before(Tail(p), Tail(q))

\* The layers whose element has been appended, in the order of the markup
RECURSIVE ElementPaths(_)
ElementPaths(n) ==
    IF n = 0 THEN <<>>
    ELSE IF IsElement(markup[n]) THEN Append(ElementPaths(n - 1), markup[n].path)
    ELSE ElementPaths(n - 1)

\* The vectors whose SVG or placeholder has been appended, in that order
RECURSIVE SettledPaths(_)
SettledPaths(n) ==
    IF n = 0 THEN <<>>
    ELSE IF markup[n].ev \in {"svg", "placeholder"} THEN Append(SettledPaths(n - 1), markup[n].path)
    ELSE SettledPaths(n - 1)

InDocumentOrder(paths) == \A a, b \in DOMAIN paths : a < b => Before(paths[a], paths[b])

\* The calls suspended at exportAsync
Outstanding == { d \in DOMAIN stack : stack[d].at = "exporting" }

\* C25: the exports of a run are awaited one after the other.  At most one
\* export call is outstanding, and it is the innermost call; the calls are
\* issued in document order; the fragments are appended in document order,
\* and those of the vectors in the order of their export calls.
C25_ExportsSequential ==
    scene # Null =>
        /\ Cardinality(Outstanding) <= 1
        /\ Outstanding # {} => Outstanding = {Len(stack)} /\ Top.path = exported[Len(exported)]
        /\ InDocumentOrder(exported)
        /\ InDocumentOrder(ElementPaths(Len(markup)))
        /\ SettledPaths(Len(markup)) =
               SubSeq(exported, 1, Len(exported) - Cardinality(Outstanding))

\* A finished walk that exported a vector inside a container and then a
\* later vector, with another element in between
C25_Witness ==
    /\ Finished
    /\ Len(exported) >= 2
    /\ Len(exported[1]) > Len(exported[2])
    /\ \E n \in DOMAIN markup : /\ markup[n].ev = "box"
                                /\ Before(exported[1], markup[n].path)
                                /\ Before(markup[n].path, exported[2])

\* The container at `path` wrote its box, or is a group whose children the
\* enclosing frame scanned in its place
ScansChildren(path) ==
    \/ ElementsOf(path) # {}
    \/ /\ NodeAt(scene[1], path).type = "GROUP"
       /\ InPlainFrame(path)
       /\ ElementsOf(ParentPath(path)) # {}

\* C26: every visible child of an emitted frame or group contributes markup
\* exactly once, whether it precedes all masks, is a mask or lies in a mask
\* run, and whatever the variant of the mask before it.  (A group whose
\* children are scanned in its place contributes through them.)
C26_EveryChildOnce ==
    Finished =>
        \A p \in ScenePaths :
            ( /\ Len(p) > 0
              /\ NodeAt(scene[1], p).visible
              /\ ScansChildren(ParentPath(p))
              /\ ~(NodeAt(scene[1], p).type = "GROUP" /\ InPlainFrame(p)) )
            => Cardinality(ElementsOf(p)) = 1

\* C27: a node that is positioned absolutely (layoutPositioning ABSOLUTE, a
\* child of a group or of a frame without layout, a sibling placed against
\* its mask) keeps position: absolute in its final inline style, also when
\* it is a container whose children need a positioning context.
C27_AbsoluteKept ==
    (Emitted /\ PlacedAbsolutely(el[1])) =>
        /\ HasProp(elOut[1].styles, "position")
        /\ FinalPosition = <<"absolute">>

----------------------------------------------------------------------------
(* SpecPaint: frames and rectangles that carry strokes and effects go       *)
(* through their branch of nodeToHtmlCss.                                   *)

Black == [r |-> 0, g |-> 0, b |-> 0]
Red   == [r |-> 1000, g |-> 0, b |-> 0]

SolidPaint(color, visible) == [type |-> "SOLID", visible |-> visible, color |-> color, opacity |-> 100]

\* No stroke, one solid stroke, a hidden stroke before a visible one, a
\* gradient stroke only
StrokeLists ==
    { <<>>,
      <<SolidPaint(Black, TRUE)>>,
      <<SolidPaint(Black, FALSE), SolidPaint(Red, TRUE)>>,
      <<[type |-> "GRADIENT_LINEAR", visible |-> TRUE]>> }

Shadow(type, visible) ==
    [ type |-> type, visible |-> visible, color |-> Black @@ [a |-> 25],
      offset |-> [x |-> 0, y |-> 4000], radius |-> 8000, spread |-> 0 ]

EffectLists ==
    { <<>>,
      <<Shadow("DROP_SHADOW", TRUE)>>,
      <<Shadow("INNER_SHADOW", TRUE)>>,
      <<Shadow("DROP_SHADOW", TRUE), Shadow("INNER_SHADOW", TRUE)>>,
      <<Shadow("DROP_SHADOW", FALSE)>> }

PaintedElements ==
    { [e EXCEPT !.node = [strokes |-> s, strokeWeight |-> w, strokeAlign |-> a, effects |-> f] @@ @] :
        e \in { Element(kindCase, FixedSizing,
                        [kind |-> "layout", parentLayoutMode |-> Some("HORIZONTAL"), index |-> 1,
                         layoutPositioning |-> "AUTO", reverse |-> FALSE, childCount |-> ChildCount],
                        Unrotated, format) :
                  kindCase \in { [type |-> "FRAME", baseName |-> <<"H", "e", "r", "o">>,
                                  children |-> <<[layoutPositioning |-> "AUTO"]>>] @@ PlainFrame,
                                 [type |-> "RECTANGLE", baseName |-> <<"C", "a", "r", "d">>,
                                  cornerRadius |-> Null] },
                  format \in {"html", "react"} },
        s \in StrokeLists, w \in {1000, 2400}, a \in {"INSIDE", "OUTSIDE", "CENTER"},
        f \in EffectLists }

InitPaint ==
    /\ pc = "emitting"
    /\ el \in { Some(e) : e \in PaintedElements }
    /\ elOut = Null
    /\ context = NewContext /\ calls = <<>> /\ css = <<>>
    /\ IdleOrder /\ IdleSanitize /\ IdlePos /\ IdleMask /\ IdleRun /\ IdleWalk

NextPaint ==
    \/ EmitFrame
    \/ EmitRectangle

SpecPaint == InitPaint /\ [][NextPaint]_vars

\* s occurs in t as a run of consecutive tokens
IsInfix(s, t) == \E k \in 0..(Len(t) - Len(s)) : SubSeq(t, k + 1, k + Len(s)) = s

\* The emitted node has a visible solid stroke aligned INSIDE
InsideStroke ==
    /\ Emitted
    /\ "strokes" \in DOMAIN el[1].node
    /\ FindSolid(el[1].node.strokes) # Null
    /\ el[1].node.strokeAlign = "INSIDE"

\* The inset shadow of the emitted node's stroke
StrokeShadow ==
    LET stroke == FindSolid(el[1].node.strokes)[1]
    IN  InsetStroke(roundDim(el[1].node.strokeWeight),
                    toCssColor(stroke.color.r, stroke.color.g, stroke.color.b, stroke.opacity))

HasShadowEffect == Len(Shadows(el[1].node.effects)) > 0

\* C28: a frame or rectangle with a visible solid stroke aligned INSIDE has
\* the stroke's inset box-shadow in its final inline style, also when the
\* node carries visible drop or inner shadows.
C28_InsetStrokeKept ==
    InsideStroke =>
        /\ HasProp(elOut[1].styles, "box-shadow")
        /\ IsInfix(StrokeShadow, LastValue(elOut[1].styles, "box-shadow", "html"))

----------------------------------------------------------------------------
(* SpecNames: two nodes of one run go through their branches one after the  *)
(* other, sharing the run's context.                                        *)

LayerNames == { <<"C", "a", "r", "d">>, <<"H", "e", "r", "o">> }

\* A rectangle with or without a border-radius line, a group, a frame
\* without auto-layout and an auto-layout frame, each under either name
NamedCases ==
    UNION { { [type |-> "RECTANGLE", baseName |-> n, cornerRadius |-> Some(4000)],
              [type |-> "RECTANGLE", baseName |-> n, cornerRadius |-> Null],
              [type |-> "GROUP", baseName |-> n, children |-> <<[layoutPositioning |-> "AUTO"]>>],
              [type |-> "FRAME", baseName |-> n,
               children |-> <<[layoutPositioning |-> "AUTO"]>>] @@ PlainFrame,
              [type |-> "FRAME", baseName |-> n,
               children |-> <<[layoutPositioning |-> "AUTO"]>>]
                 @@ Frame("HORIZONTAL", "NO_WRAP", "AUTO", Null, 80, "MIN", "MIN", 160, 160, 160, 160) } :
            n \in LayerNames }

\* Each of them as a child of a group, with hugging size
NamedElements ==
    { Element(kindCase,
              [layoutGrow |-> 0, layoutAlign |-> "INHERIT",
               layoutSizingHorizontal |-> "HUG", layoutSizingVertical |-> "HUG"],
              [kind |-> "group", parentLayoutMode |-> Null, index |-> 1,
               layoutPositioning |-> "AUTO", reverse |-> FALSE, childCount |-> ChildCount],
              Unrotated, "html") : kindCase \in NamedCases }

\* The branch of nodeToHtmlCss the node goes through
ElementOut(e, ctx) ==
    IF e.node.type = "FRAME" THEN FrameElement(e, ctx)
    ELSE IF e.node.type = "GROUP" THEN GroupElement(e, ctx)
    ELSE RectangleElement(e, ctx)

InitNames ==
    /\ pc = "naming"
    /\ el \in { <<a, b>> : a \in NamedElements, b \in NamedElements }
    /\ elOut = <<>>
    /\ context = NewContext /\ calls = <<>> /\ css = <<>>
    /\ IdleOrder /\ IdleSanitize /\ IdlePos /\ IdleMask /\ IdleRun /\ IdleWalk

\* The next node is emitted with the context the one before it left
EmitNamed ==
    /\ pc = "naming"
    /\ Len(elOut) < Len(el)
    /\ elOut' = Append(elOut, ElementOut(el[Len(elOut) + 1], context))
    /\ context' = elOut'[Len(elOut')].context
    /\ UNCHANGED <<pc, el, calls, css, orderVars, sanitizeVars, posVars, maskVars, runVars, walkVars>>

\* The stylesheet is assembled
SerializeNamed ==
    /\ pc = "naming"
    /\ Len(elOut) = Len(el)
    /\ css' = SerializeCss(context.styleEntries)
    /\ pc' = "named"
    /\ UNCHANGED <<el, elOut, context, calls, orderVars, sanitizeVars, posVars, maskVars, runVars, walkVars>>

NextNames ==
    \/ EmitNamed
    \/ SerializeNamed

SpecNames == InitNames /\ [][NextNames]_vars

\* The declaration lines a node interns a class for
OwnLines(e) ==
    IF e.node.type = "RECTANGLE" /\ e.node.cornerRadius # Null
    THEN <<RadiusLine(roundDim(e.node.cornerRadius[1]))>> ELSE <<>>

RulesOf(cls) == { k \in DOMAIN context.styleEntries : context.styleEntries[k].className = cls }

\* C29: no element receives another node's styles through its class list.
\* A class of an emitted element that has a rule in the stylesheet is a
\* registered utility class or the class interned from the element's own
\* declaration lines; in particular the bare base name a frame or group
\* falls back to is not the class interned for another node.
C29_NoForeignStyles ==
    pc = "named" =>
        \A n \in DOMAIN elOut : \A c \in DOMAIN elOut[n].classes :
            \A k \in RulesOf(elOut[n].classes[c]) :
                \/ elOut[n].classes[c] \in context.utilityClasses
                \/ context.styleEntries[k].cssText = CssText(elOut[n].classes[c], OwnLines(el[n]))

----------------------------------------------------------------------------
(* Claims about termination *)

\* What one step may do to a call in progress: leave it alone, or move it
\* forward.  A loop at child i moves to i + 1 past a child that is no mask
\* (or a flattened group), and past a mask to k, the next mask or the end of
\* the list, by way of the mask's own visit and of its masked siblings
\* i + 1 .. k - 1.
Advances(a, b) ==
    \/ b = a
    \/ /\ b.path = a.path /\ b.list = a.list /\ b.flat = a.flat
       /\ LET children == NodeAt(scene[1], a.list).children
          IN  \/ a.at = "enter" /\ b.at = "exporting"
              \/ a.at = "enter" /\ b.at = "children" /\ b.i = 1
              \/ /\ a.at = "children" /\ b.at = "children"
                 /\ b.i = a.i + 1 /\ a.i <= Len(children)
                 /\ \/ ~isMaskNode(children[a.i])
                    \/ ~a.flat /\ children[a.i].type = "GROUP"
              \/ /\ a.at = "children" /\ b.at = "afterMask"
                 /\ isMaskNode(children[a.i])
                 /\ b.i = a.i /\ b.k > a.i /\ b.k <= Len(children) + 1
                 /\ \A c \in (a.i + 1)..(b.k - 1) : ~isMaskNode(children[c])
                 /\ b.k <= Len(children) => isMaskNode(children[b.k])
              \/ a.at = "afterMask" /\ b.at = "masked" /\ b.i = a.i /\ b.k = a.k /\ b.m = a.i + 1
              \/ a.at = "masked" /\ b.at = "masked" /\ b.i = a.i /\ b.k = a.k
                 /\ b.m = a.m + 1 /\ b.m <= a.k
              \/ a.at \in {"afterMask", "masked"} /\ b.at = "children" /\ b.i = a.k /\ a.k > a.i

\* A new call is for a child of the list its caller scans
Descends(caller, callee) ==
    /\ Len(callee.list) = Len(caller.list) + 1
    /\ SubSeq(callee.list, 1, Len(caller.list)) = caller.list
    /\ callee.list[Len(callee.list)] \in 1..Len(NodeAt(scene[1], caller.list).children)

WalkStep ==
    /\ Len(stack') \in {Len(stack) - 1, Len(stack), Len(stack) + 1}
    /\ \A d \in 1..Len(stack') :
           IF d <= Len(stack) THEN Advances(stack[d], stack'[d])
           ELSE Descends(stack[d - 1], stack'[d])
    /\ Len(stack') = Len(stack) => stack' # stack

\* C30: the walk of a finite tree ends, provided every export returns or
\* fails.  Every step returns from a call, moves a call forward or calls
\* for a child of the scanned list; a loop past a mask continues at the next
\* mask or at the end of the list, past any other child at the next index.
C30_WalkTerminates == [][scene # Null => WalkStep]_vars /\ <>Finished

\* A walk that has ended after a loop jumped over a mask run of two siblings
\* and after a call for a grandchild of the root
C30_Witness ==
    /\ Finished
    /\ \E p \in ScenePaths :
           /\ Len(p) = 1 /\ isMaskNode(NodeAt(scene[1], p))
           /\ Len(scene[1].children) >= p[1] + 2
           /\ \A c \in (p[1] + 1)..(p[1] + 2) : ~isMaskNode(scene[1].children[c])
    /\ \E n \in DOMAIN markup : Len(markup[n].path) >= 2

====
